---- MODULE Spec2Model ----
(***************************************************************************)
(* A model of the Pannellum tour editor (src/tour-editor.js): the tour     *)
(* document (tourConfig), the editor's selection state and the handlers    *)
(* that mutate them, with the panorama renderer reduced to the part of its *)
(* interface the handlers read back: whether an instance is live, and its  *)
(* active scene. Its "scenechange" notifications arrive between any two    *)
(* handlers.                                                               *)
(*                                                                         *)
(* Strings are sequences of one-character strings, so that trim(), the     *)
(* identifier pattern /^[a-zA-Z0-9_-]+$/, template literals and the key    *)
(* order of a JavaScript object are computed and not assumed.              *)
(* JavaScript's null and "" (both falsy, never compared with each other    *)
(* by the code) are both the empty sequence.                               *)
(***************************************************************************)
EXTENDS Integers, Sequences, FiniteSets, TLC

(* ---------------------------------------------------------------------- *)
(* Bounds of the model                                                     *)
(* ---------------------------------------------------------------------- *)
\* Hotspots in a document.
MaxHotspots == 2

\* Hotspots in a document whose scenes are deleted: one owned by the deleted
\* scene, one that points to it, one that stays.
MaxCascade == 3

\* Fallback ids handed out.
MaxCounter == 2

(* ---------------------------------------------------------------------- *)
(* Strings                                                                 *)
(* ---------------------------------------------------------------------- *)
Empty == << >>

Digits == {"0", "1", "2", "3", "4", "5", "6", "7", "8", "9"}

Letters ==
    {"a", "b", "c", "d", "e", "f", "g", "h", "i", "j", "k", "l", "m",
     "n", "o", "p", "q", "r", "s", "t", "u", "v", "w", "x", "y", "z",
     "A", "B", "C", "D", "E", "F", "G", "H", "I", "J", "K", "L", "M",
     "N", "O", "P", "Q", "R", "S", "T", "U", "V", "W", "X", "Y", "Z"}

\* The character class of /^[a-zA-Z0-9_-]+$/.
IdChars == Letters \cup Digits \cup {"_", "-"}

Range(s) == {s[i] : i \in 1..Len(s)}

\* String.prototype.trim over the whitespace the inputs use.
RECURSIVE trim(_)
trim(s) ==
    IF s = Empty THEN Empty
    ELSE IF Head(s) = " " THEN trim(Tail(s))
    ELSE IF s[Len(s)] = " " THEN trim(SubSeq(s, 1, Len(s) - 1))
    ELSE s

\* /^[a-zA-Z0-9_-]+$/.test(s)
MatchesIdPattern(s) == s # Empty /\ \A i \in 1..Len(s) : s[i] \in IdChars

DigitValue(c) ==
    CASE c = "0" -> 0 [] c = "1" -> 1 [] c = "2" -> 2 [] c = "3" -> 3
      [] c = "4" -> 4 [] c = "5" -> 5 [] c = "6" -> 6 [] c = "7" -> 7
      [] c = "8" -> 8 [] c = "9" -> 9

DigitChar(n) ==
    CASE n = 0 -> "0" [] n = 1 -> "1" [] n = 2 -> "2" [] n = 3 -> "3"
      [] n = 4 -> "4" [] n = 5 -> "5" [] n = 6 -> "6" [] n = 7 -> "7"
      [] n = 8 -> "8" [] n = 9 -> "9"

RECURSIVE NumberValue(_)
NumberValue(s) ==
    IF s = Empty THEN 0
    ELSE 10 * NumberValue(SubSeq(s, 1, Len(s) - 1)) + DigitValue(s[Len(s)])

\* Number.prototype.toString for a non-negative integer.
RECURSIVE NumberToString(_)
NumberToString(n) ==
    IF n < 10 THEN <<DigitChar(n)>>
    ELSE NumberToString(n \div 10) \o <<DigitChar(n % 10)>>

\* A property key that JavaScript treats as an integer index: a canonical
\* decimal numeral. Such keys are enumerated first, in ascending numeric
\* order, whatever the order of insertion.
IsArrayIndex(k) ==
    /\ k # Empty
    /\ \A i \in 1..Len(k) : k[i] \in Digits
    /\ (Len(k) = 1 \/ k[1] # "0")

(* ---------------------------------------------------------------------- *)
(* tourConfig.scenes: a JavaScript object, kept as the sequence of its     *)
(* entries in enumeration order (Object.keys / Object.entries order).      *)
(* ---------------------------------------------------------------------- *)
ObjectKeys(obj) == [i \in 1..Len(obj) |-> obj[i].id]

KeySet(obj) == {obj[i].id : i \in 1..Len(obj)}

HasKey(obj, k) == k \in KeySet(obj)

IndexOfKey(obj, k) == CHOOSE i \in 1..Len(obj) : obj[i].id = k

Get(obj, k) == obj[IndexOfKey(obj, k)]

\* Position at which a new own property k is enumerated.
InsertPosition(obj, k) ==
    IF IsArrayIndex(k)
    THEN 1 + Cardinality({i \in 1..Len(obj) :
                 IsArrayIndex(obj[i].id) /\ NumberValue(obj[i].id) < NumberValue(k)})
    ELSE Len(obj) + 1

InsertAt(seq, pos, e) ==
    SubSeq(seq, 1, pos - 1) \o <<e>> \o SubSeq(seq, pos, Len(seq))

\* obj[k] = value
SetProperty(obj, k, value) ==
    IF HasKey(obj, k)
    THEN [obj EXCEPT ![IndexOfKey(obj, k)] = value]
    ELSE InsertAt(obj, InsertPosition(obj, k), value)

\* delete obj[k]
DeleteProperty(obj, k) ==
    IF HasKey(obj, k)
    THEN LET i == IndexOfKey(obj, k)
         IN  SubSeq(obj, 1, i - 1) \o SubSeq(obj, i + 1, Len(obj))
    ELSE obj

(* ---------------------------------------------------------------------- *)
(* Arrays                                                                  *)
(* ---------------------------------------------------------------------- *)
\* Array.prototype.indexOf, 1-based; 0 stands for -1.
indexOf(seq, e) ==
    IF \E i \in 1..Len(seq) : seq[i] = e
    THEN CHOOSE i \in 1..Len(seq) : seq[i] = e /\ \A j \in 1..(i - 1) : seq[j] # e
    ELSE 0

\* seq.splice(i, 1) with a 1-based index inside the array.
RemoveAt(seq, i) == SubSeq(seq, 1, i - 1) \o SubSeq(seq, i + 1, Len(seq))

(* ---------------------------------------------------------------------- *)
(* Inputs: what the user types or picks, and what the renderer reports     *)
(* ---------------------------------------------------------------------- *)
idA == <<"A">>
idB == <<"B">>
id1 == <<"1">>
idSpaced == <<"a", " ", "b">>

\* Text typed into the id field of the add scene dialog (before trim).
SceneIdInputs == {Empty, idA, <<" ", "B">>, id1}

\* Text typed into the id field of the edit scene dialog (before trim).
RenameIdInputs == SceneIdInputs \cup {idSpaced}

\* Where a hotspot is placed.
PositionInputs == {[pitch |-> 5, yaw |-> 7]}

\* The label field of the hotspot dialog.
HotspotTextInputs == {Empty}

\* Ids typed into the hotspot dialog: one of the form of the fallback id, and
\* one with a character that is not allowed.
typedHotspotId == <<"h", "s", "_", "A", "_", "0">>
badHotspotId == <<"h", "!">>

DefaultCamera == [pitch |-> 0, yaw |-> 0, hfov |-> 100]

\* Camera values read from the renderer or typed into the edit form.
CameraInputs == {DefaultCamera, [pitch |-> 10, yaw |-> 20, hfov |-> 90]}

(* ---------------------------------------------------------------------- *)
(* State                                                                   *)
(* ---------------------------------------------------------------------- *)
VARIABLES
    scenes,              \* tourConfig.scenes, entries in enumeration order
    sceneOrder,          \* tourConfig.default.sceneOrder
    firstScene,          \* tourConfig.default.firstScene
    currentScene,        \* selected scene id, Empty for null / ""
    sceneSelect,         \* sceneSelect.value
    viewer,              \* the renderer instance, see NoViewer
    hotspotCounter,      \* counter of the fallback hotspot id
    currentSceneIndex,   \* 0-based place in sceneOrder the arrows start from
    pendingHotspot,      \* the hotspot dialog, see NoPendingHotspot
    editSceneModal,      \* TRUE while the edit scene dialog is shown
    draggedHotspotIndex, \* 1-based index of the hotspot dragged, 0 for null
    lastOp,              \* history: the handler that ran last and its outcome
    watch                \* history: the handlers lastOp keeps track of

vars == <<scenes, sceneOrder, firstScene, currentScene, sceneSelect, viewer,
          hotspotCounter, currentSceneIndex, pendingHotspot, editSceneModal, draggedHotspotIndex,
          lastOp, watch>>

\* The editor state the handlers below are functions of.
State ==
    [scenes |-> scenes, sceneOrder |-> sceneOrder, firstScene |-> firstScene,
     currentScene |-> currentScene, sceneSelect |-> sceneSelect,
     viewer |-> viewer, hotspotCounter |-> hotspotCounter,
     currentSceneIndex |-> currentSceneIndex]

Install(st) ==
    /\ scenes' = st.scenes
    /\ sceneOrder' = st.sceneOrder
    /\ firstScene' = st.firstScene
    /\ currentScene' = st.currentScene
    /\ sceneSelect' = st.sceneSelect
    /\ viewer' = st.viewer
    /\ hotspotCounter' = st.hotspotCounter
    /\ currentSceneIndex' = st.currentSceneIndex

\* lastOp: the handler, whether it went through, and a note on its case. A
\* handler that is not watched leaves no trace.
Op(name, ok, note) ==
    IF name \in watch THEN [op |-> name, ok |-> ok, note |-> note]
    ELSE [op |-> "", ok |-> TRUE, note |-> ""]

\* viewer = null
NoViewer == [live |-> FALSE, scene |-> Empty]

\* pendingHotspot = null
NoPendingHotspot ==
    [open |-> FALSE, pitch |-> 0, yaw |-> 0, isEditing |-> FALSE,
     editIndex |-> 0, options |-> {}]

RECURSIVE TotalHotspots(_)
TotalHotspots(obj) ==
    IF obj = << >> THEN 0
    ELSE Len(Head(obj).hotSpots) + TotalHotspots(Tail(obj))

(* ---------------------------------------------------------------------- *)
(* Renderer capability contract, as far as the editor reads it back        *)
(* ---------------------------------------------------------------------- *)
\* viewer.loadScene(id, ...): the renderer switches to the scene.
loadScene(v, id) == [v EXCEPT !.scene = id]

\* pannellum.viewer(container, config): starts on default.firstScene.
createViewer(st) ==
    [live |-> TRUE,
     scene |-> IF HasKey(st.scenes, st.firstScene) THEN st.firstScene ELSE Empty]

(* ---------------------------------------------------------------------- *)
(* Selection                                                               *)
(* ---------------------------------------------------------------------- *)
\* sceneSelect.value = v: a <select> takes only the value of one of its
\* options, which updateSceneDropdowns keeps equal to "" plus the scene keys.
setSceneSelect(st, v) ==
    [st EXCEPT !.sceneSelect = IF HasKey(st.scenes, v) THEN v ELSE Empty]

\* updateSceneDropdowns rebuilds the options: the first one, "", is selected.
updateSceneDropdowns(st) == [st EXCEPT !.sceneSelect = Empty]

\* What an array holds where nothing was stored.
undefined == [undefined |-> TRUE]

\* updateHotspotsList reads the text of every hotspot of the list: it throws
\* a TypeError, which ends the handler that called it, on an entry that is
\* undefined.
listsHotspots(hotSpots) == \A j \in 1..Len(hotSpots) : hotSpots[j] # undefined

\* scene.hotSpots || []: a scene read from a file may hold no hotSpots.
hotSpotsOf(scene) ==
    IF "hotSpots" \in DOMAIN scene THEN scene.hotSpots ELSE << >>

\* scene.hotSpots.filter(h => h.sceneId ...) throws a TypeError, for a scene
\* without hotSpots and for an entry that is undefined.
filterThrows(scene) ==
    "hotSpots" \notin DOMAIN scene \/ ~listsHotspots(scene.hotSpots)

selectScene(st) ==
    LET cur == st.sceneSelect
        st1 == [st EXCEPT !.currentScene = cur]
    IN  IF cur # Empty /\ HasKey(st.scenes, cur) /\ st.viewer.live
           /\ listsHotspots(hotSpotsOf(Get(st.scenes, cur)))
        THEN [st1 EXCEPT !.viewer = loadScene(@, cur)]
        ELSE st1

\* createOk: whether pannellum.viewer(...) returns an instance or throws.
initializeViewer(st, createOk) ==
    LET st0 == [st EXCEPT !.viewer = NoViewer]
    IN  IF Len(st0.scenes) > 0
        THEN IF createOk
             THEN LET st1 == [st0 EXCEPT !.viewer = createViewer(st0)]
                  IN  IF st1.currentScene = Empty /\ st1.firstScene # Empty
                         /\ HasKey(st1.scenes, st1.firstScene)
                      THEN selectScene(setSceneSelect(st1, st1.firstScene))
                      ELSE IF st1.currentScene = Empty
                      THEN selectScene(setSceneSelect(st1, ObjectKeys(st1.scenes)[1]))
                      ELSE st1
             ELSE st0
        ELSE st0

(* ---------------------------------------------------------------------- *)
(* Scenes                                                                  *)
(* ---------------------------------------------------------------------- *)
\* A scene that starts with a hotspot that points to itself.
sceneWithHotspot(id) ==
    [id |-> id, pitch |-> 0, yaw |-> 0, hfov |-> 100,
     hotSpots |-> <<[pitch |-> 0, yaw |-> 0, text |-> id, sceneId |-> id,
                     id |-> id, targetPitch |-> 0, targetYaw |-> 0,
                     targetHfov |-> 100]>>]

NewScene(id) ==
    [id |-> id, pitch |-> DefaultCamera.pitch, yaw |-> DefaultCamera.yaw,
     hfov |-> DefaultCamera.hfov, hotSpots |-> << >>]

\* Whether addNewScene passes its checks.
addNewSceneAccepts(st, newSceneId, pathGiven) ==
    newSceneId # Empty /\ pathGiven /\ ~HasKey(st.scenes, newSceneId)

\* throws: the mirrored renderer calls throw (the handler then rebuilds).
addNewScene(st, rawId, pathGiven, throws, createOk) ==
    LET newSceneId == trim(rawId)
    IN  IF ~addNewSceneAccepts(st, newSceneId, pathGiven) THEN st
        ELSE
        LET st1 == [st EXCEPT
                      !.scenes = SetProperty(@, newSceneId, NewScene(newSceneId)),
                      !.sceneOrder = Append(@, newSceneId)]
            st2 == updateSceneDropdowns(st1)
            st3 == IF Len(st2.scenes) = 1
                   THEN [st2 EXCEPT !.firstScene = newSceneId]
                   ELSE st2
            st4 == IF st3.viewer.live
                   THEN IF throws THEN initializeViewer(st3, createOk)
                        ELSE [st3 EXCEPT !.viewer = loadScene(@, newSceneId)]
                   ELSE initializeViewer(st3, createOk)
        IN  selectScene(setSceneSelect(st4, newSceneId))

RECURSIVE countTargeting(_, _)
countTargeting(obj, targetSceneId) ==
    IF obj = << >> THEN 0
    ELSE Len(SelectSeq(hotSpotsOf(Head(obj)),
                       LAMBDA h : h.sceneId = targetSceneId))
         + countTargeting(Tail(obj), targetSceneId)

\* The counts the confirmation of a deletion shows.
countRelatedHotspots(obj, sceneId) ==
    LET own == IF HasKey(obj, sceneId) THEN Len(hotSpotsOf(Get(obj, sceneId)))
               ELSE 0
        referencing == countTargeting(
                           SelectSeq(obj, LAMBDA sc : sc.id # sceneId), sceneId)
    IN  [own |-> own, referencing |-> referencing, total |-> own + referencing]

\* Object.keys(tourConfig.scenes).filter(id => id !== sceneId)
remainingScenesAfterDeletion(st, sceneId) ==
    SelectSeq(ObjectKeys(st.scenes), LAMBDA id : id # sceneId)

\* Step 3 of the mirrored deletion: the renderer is switched to every other
\* scene that holds a hotspot pointing to the deleted scene.
RECURSIVE visitReferencingScenes(_, _, _, _)
visitReferencingScenes(v, obj, i, deleted) ==
    IF i > Len(obj) THEN v
    ELSE LET sc == obj[i]
             refs == SelectSeq(hotSpotsOf(sc),
                               LAMBDA h : h.sceneId = deleted /\ h.id # Empty)
             v1 == IF sc.id # deleted /\ Len(refs) > 0 /\ v.scene # sc.id
                   THEN loadScene(v, sc.id)
                   ELSE v
         IN  visitReferencingScenes(v1, obj, i + 1, deleted)

\* Steps 1 to 5 of deleteCurrentScene on the renderer. throws: the outer try
\* block is left at its first renderer call; it is also left by step 1 when
\* that reads the id of an entry that is undefined.
mirrorDeleteScene(st, throws) ==
    IF throws \/ (/\ st.viewer.scene = st.currentScene
                  /\ HasKey(st.scenes, st.currentScene)
                  /\ ~listsHotspots(hotSpotsOf(Get(st.scenes, st.currentScene))))
    THEN st.viewer
    ELSE
    LET remaining == remainingScenesAfterDeletion(st, st.currentScene)
        v2 == IF st.viewer.scene = st.currentScene /\ Len(remaining) > 0
              THEN loadScene(st.viewer, remaining[1])
              ELSE st.viewer
        v3 == visitReferencingScenes(v2, st.scenes, 1, st.currentScene)
    IN  IF Len(remaining) > 0 /\ v3.scene # remaining[1]
        THEN loadScene(v3, remaining[1])
        ELSE v3

\* The selection deleteCurrentScene moves to.
selectionAfterDelete(st, sceneToDelete) ==
    IF st.viewer.live
    THEN LET remaining == remainingScenesAfterDeletion(st, sceneToDelete)
         IN  IF Len(remaining) > 0 THEN remaining[1] ELSE Empty
    ELSE Empty

\* A deletion that forgets the scene order.
keepSceneOrder(order, sceneToDelete) == order

removeFromSceneOrder(order, sceneToDelete) ==
    LET orderIndex == indexOf(order, sceneToDelete)
    IN  IF orderIndex > 0 THEN RemoveAt(order, orderIndex) ELSE order

\* A deletion that forgets the first scene.
keepFirstScene(first, obj, sceneToDelete) == first

\* "Update first scene if necessary", on the scenes left after the deletion.
firstSceneAfterDelete(first, obj, sceneToDelete) ==
    IF first = sceneToDelete
    THEN IF Len(obj) > 0 THEN ObjectKeys(obj)[1] ELSE Empty
    ELSE first

\* A deletion that leaves the hotspots of the other scenes alone.
keepHotspots(obj, sceneToDelete) == obj

\* "Remove hotspots pointing to this scene", for the scenes in turn: the
\* TypeError of a filter ends it with the scenes before that one filtered
\* and the others as they were.
RECURSIVE removeHotspotsPointingTo(_, _)
removeHotspotsPointingTo(obj, sceneToDelete) ==
    IF obj = << >> \/ filterThrows(Head(obj)) THEN obj
    ELSE <<[Head(obj) EXCEPT !.hotSpots =
               SelectSeq(@, LAMBDA h : h.sceneId # sceneToDelete)]>>
             \o removeHotspotsPointingTo(Tail(obj), sceneToDelete)

\* countRelatedHotspots, which runs before the confirmation, filters the
\* hotspots of the other scenes that have some: its TypeError ends the
\* handler with nothing changed.  The TypeError of the last filter ends it
\* after the scene was removed, before the dropdowns and the selection are
\* refreshed.
deleteCurrentScene(st, confirmed, throws) ==
    IF st.currentScene = Empty \/ ~confirmed THEN st
    ELSE IF \E i \in 1..Len(st.scenes) :
               /\ st.scenes[i].id # st.currentScene
               /\ ~listsHotspots(hotSpotsOf(st.scenes[i]))
    THEN st
    ELSE
    LET sceneToDelete == st.currentScene
        st1 == IF st.viewer.live
               THEN [st EXCEPT !.viewer = mirrorDeleteScene(st, throws)]
               ELSE st
        st2 == [st1 EXCEPT !.currentScene = selectionAfterDelete(st1, sceneToDelete)]
        st3 == [st2 EXCEPT !.scenes = DeleteProperty(@, sceneToDelete)]
        st4 == [st3 EXCEPT !.sceneOrder = removeFromSceneOrder(@, sceneToDelete)]
        st5 == [st4 EXCEPT !.firstScene =
                             firstSceneAfterDelete(@, st4.scenes, sceneToDelete)]
        st6 == [st5 EXCEPT !.scenes = removeHotspotsPointingTo(@, sceneToDelete)]
        st7 == selectScene(setSceneSelect(updateSceneDropdowns(st6), st6.currentScene))
    IN  IF \E i \in 1..Len(st5.scenes) : filterThrows(st5.scenes[i]) THEN st6
        ELSE IF Len(st7.scenes) = 0 THEN initializeViewer(st7, TRUE) ELSE st7

(* ---------------------------------------------------------------------- *)
(* The scene graph of the renderer                                         *)
(* ---------------------------------------------------------------------- *)
\* pannellum.viewer(container, configCopy): the renderer holds a copy of the
\* scenes with their hotspots, and its active scene.
rendererOf(st) == [scenes |-> st.scenes, scene |-> st.viewer.scene]

\* One call of the editor on the renderer. removesActive: whether the
\* renderer removes a scene that is its active one or reports failure.
rendererCall(r, c, removesActive) ==
    CASE c.call = "loadScene" -> [r EXCEPT !.scene = c.scene]
      [] c.call = "removeHotSpot" ->
           IF HasKey(r.scenes, c.scene)
           THEN [r EXCEPT !.scenes[IndexOfKey(r.scenes, c.scene)].hotSpots =
                            SelectSeq(@, LAMBDA h : h.id # c.id)]
           ELSE r
      [] c.call = "removeScene" ->
           IF HasKey(r.scenes, c.scene) /\ (r.scene # c.scene \/ removesActive)
           THEN [r EXCEPT !.scenes = DeleteProperty(@, c.scene)]
           ELSE r
      [] c.call = "addScene" ->
           [r EXCEPT !.scenes = SetProperty(@, c.scene, c.config)]

\* The renderer after the calls, made in turn.
RECURSIVE play(_, _, _)
play(r, calls, removesActive) ==
    IF calls = << >> THEN r
    ELSE play(rendererCall(r, Head(calls), removesActive), Tail(calls),
              removesActive)

\* Step 3 of deleteCurrentScene for the scenes from the i-th on, the
\* renderer being on the scene active: for every hotspot with an id that
\* points to the deleted scene, a switch to its scene when the renderer is
\* on another one, and its removal.
RECURSIVE referencingCalls(_, _, _, _)
referencingCalls(active, obj, i, deleted) ==
    IF i > Len(obj) THEN << >>
    ELSE LET sc == obj[i]
             refs == IF sc.id = deleted THEN << >>
                     ELSE SelectSeq(hotSpotsOf(sc),
                                    LAMBDA h : h.sceneId = deleted /\ h.id # Empty)
             switch == IF refs # << >> /\ active # sc.id
                       THEN <<[call |-> "loadScene", scene |-> sc.id]>>
                       ELSE << >>
         IN  switch
               \o [j \in 1..Len(refs) |->
                     [call |-> "removeHotSpot", id |-> refs[j].id, scene |-> sc.id]]
               \o referencingCalls(IF refs # << >> THEN sc.id ELSE active,
                                   obj, i + 1, deleted)

\* The calls of steps 1 to 5 of deleteCurrentScene when none of them throws.
deleteSceneCalls(st) ==
    LET X == st.currentScene
        remaining == remainingScenesAfterDeletion(st, X)
        own == IF st.viewer.scene = X /\ HasKey(st.scenes, X)
               THEN SelectSeq(hotSpotsOf(Get(st.scenes, X)), LAMBDA h : h.id # Empty)
               ELSE << >>
        step1 == [j \in 1..Len(own) |->
                    [call |-> "removeHotSpot", id |-> own[j].id, scene |-> X]]
        step2 == IF st.viewer.scene = X /\ Len(remaining) > 0
                 THEN <<[call |-> "loadScene", scene |-> remaining[1]]>>
                 ELSE << >>
        active2 == IF step2 # << >> THEN remaining[1] ELSE st.viewer.scene
        step3 == referencingCalls(active2, st.scenes, 1, X)
        active3 == play([scenes |-> << >>, scene |-> active2], step3, FALSE).scene
        step4 == IF Len(remaining) > 0 /\ active3 # remaining[1]
                 THEN <<[call |-> "loadScene", scene |-> remaining[1]]>>
                 ELSE << >>
    IN  step1 \o step2 \o step3 \o step4
          \o <<[call |-> "removeScene", scene |-> X]>>

\* The renderer when deleteCurrentScene has completed. throws: the outer
\* try block is left at its first renderer call, with nothing done on the
\* renderer. The renderer is created anew only when no scene is left, and
\* then there is none.
mirroredDeletion(st, throws, removesActive) ==
    LET mirrored == IF throws THEN rendererOf(st)
                    ELSE play(rendererOf(st), deleteSceneCalls(st), removesActive)
    IN  IF Len(st.scenes) = 1 /\ HasKey(st.scenes, st.currentScene)
        THEN [scenes |-> << >>, scene |-> Empty]
        ELSE mirrored

(* ---------------------------------------------------------------------- *)
(* Rename and edit                                                         *)
(* ---------------------------------------------------------------------- *)
\* "Update scenes object - preserve order by rebuilding": the entries are
\* assigned, in enumeration order, to a fresh object.
RECURSIVE rebuildRenamed(_, _, _, _)
rebuildRenamed(updatedScenes, entries, oldSceneId, newSceneId) ==
    IF entries = << >> THEN updatedScenes
    ELSE LET e == Head(entries)
             key == IF e.id = oldSceneId THEN newSceneId ELSE e.id
         IN  rebuildRenamed(SetProperty(updatedScenes, key, [e EXCEPT !.id = key]),
                            Tail(entries), oldSceneId, newSceneId)

\* A rename that rewrites the label with the target.
repointWithLabel(h, oldSceneId, newSceneId) ==
    IF h.sceneId = oldSceneId
    THEN [h EXCEPT !.sceneId = newSceneId, !.text = newSceneId] ELSE h

\* "Update all hotspot references in all scenes"
repointHotspot(h, oldSceneId, newSceneId) ==
    IF h.sceneId = oldSceneId THEN [h EXCEPT !.sceneId = newSceneId] ELSE h

repointHotspots(obj, oldSceneId, newSceneId) ==
    [i \in 1..Len(obj) |->
        [obj[i] EXCEPT !.hotSpots =
            [j \in 1..Len(@) |-> repointHotspot(@[j], oldSceneId, newSceneId)]]]

renameInSceneOrder(order, oldSceneId, newSceneId) ==
    LET orderIndex == indexOf(order, oldSceneId)
    IN  IF orderIndex > 0 THEN [order EXCEPT ![orderIndex] = newSceneId] ELSE order

\* A rename that checks nothing.
acceptAnyId(st, oldSceneId, newSceneId, confirmed) == ""

\* The reason renameScene refuses, "" when it goes on.
renameSceneError(st, oldSceneId, newSceneId, confirmed) ==
    IF newSceneId = Empty \/ trim(newSceneId) = Empty THEN "empty"
    ELSE IF ~MatchesIdPattern(newSceneId) THEN "characters"
    ELSE IF oldSceneId = newSceneId THEN ""
    ELSE IF HasKey(st.scenes, newSceneId) THEN "exists"
    ELSE IF ~confirmed THEN "cancelled"
    ELSE ""

\* The renderer part of renameScene and of editCurrentScene: the scene is
\* removed and added again, and loaded when it was the active one.
remirrorScene(st, wasId, sceneId, throws, createOk) ==
    IF ~st.viewer.live THEN st
    ELSE IF throws THEN initializeViewer(st, createOk)
    ELSE IF st.viewer.scene = wasId
    THEN [st EXCEPT !.viewer = loadScene(@, sceneId)]
    ELSE st

\* Returns [ok, st]: the value renameScene returns and the state it leaves.
renameScene(st, oldSceneId, newSceneId, confirmed, throws, createOk) ==
    IF renameSceneError(st, oldSceneId, newSceneId, confirmed) # ""
    THEN [ok |-> FALSE, st |-> st]
    ELSE IF oldSceneId = newSceneId THEN [ok |-> TRUE, st |-> st]
    ELSE
    LET st1 == [st EXCEPT !.scenes =
                            rebuildRenamed(<< >>, @, oldSceneId, newSceneId)]
        st2 == [st1 EXCEPT !.scenes = repointHotspots(@, oldSceneId, newSceneId)]
        st3 == [st2 EXCEPT !.sceneOrder =
                             renameInSceneOrder(@, oldSceneId, newSceneId)]
        st4 == IF st3.firstScene = oldSceneId
               THEN [st3 EXCEPT !.firstScene = newSceneId] ELSE st3
        st5 == IF st4.currentScene = oldSceneId
               THEN [st4 EXCEPT !.currentScene = newSceneId] ELSE st4
        st6 == remirrorScene(st5, oldSceneId, newSceneId, throws, createOk)
    IN  [ok |-> TRUE,
         st |-> selectScene(setSceneSelect(updateSceneDropdowns(st6), newSceneId))]

\* A reference update that gives every hotspot the target camera.
updateAnyHotspotTarget(h, targetSceneId, cam) ==
    [h EXCEPT !.targetPitch = cam.pitch, !.targetYaw = cam.yaw,
              !.targetHfov = cam.hfov]

updateHotspotTarget(h, targetSceneId, cam) ==
    IF h.sceneId = targetSceneId
    THEN [h EXCEPT !.targetPitch = cam.pitch, !.targetYaw = cam.yaw,
                   !.targetHfov = cam.hfov]
    ELSE h

\* updateHotspotReferences: the document it leaves ...
updateHotspotReferences(obj, targetSceneId, cam) ==
    [i \in 1..Len(obj) |->
        [obj[i] EXCEPT !.hotSpots =
            [j \in 1..Len(@) |-> updateHotspotTarget(@[j], targetSceneId, cam)]]]

\* ... and the count it returns.
updateCount(obj, targetSceneId) == countTargeting(obj, targetSceneId)

setSceneCamera(obj, sceneId, cam) ==
    [obj EXCEPT ![IndexOfKey(obj, sceneId)] =
        [@ EXCEPT !.pitch = cam.pitch, !.yaw = cam.yaw, !.hfov = cam.hfov]]

\* Returns [done, rename, st]: done when the dialog was applied and hidden,
\* rename one of "none" (the id was not changed), "renamed", and what the
\* form or the rename was refused for: "required", "empty", "characters",
\* "exists", "cancelled".
editCurrentScene(st, rawId, pathGiven, cam, confirmed, throws, createOk) ==
    LET newSceneId == trim(rawId)
    IN  IF st.currentScene = Empty \/ newSceneId = Empty \/ ~pathGiven
        THEN [done |-> FALSE, rename |-> "required", st |-> st]
        ELSE
        LET r == IF newSceneId # st.currentScene
                 THEN renameScene(st, st.currentScene, newSceneId,
                                  confirmed, throws, createOk)
                 ELSE [ok |-> TRUE, st |-> st]
            renamed == IF newSceneId # st.currentScene
                       THEN IF r.ok THEN "renamed"
                            ELSE renameSceneError(st, st.currentScene, newSceneId,
                                                  confirmed)
                       ELSE "none"
            st1 == r.st
        IN  IF ~r.ok \/ ~HasKey(st1.scenes, st1.currentScene)
            THEN [done |-> FALSE, rename |-> renamed, st |-> st1]
            ELSE
            LET st2 == [st1 EXCEPT !.scenes = setSceneCamera(@, st1.currentScene, cam)]
                st3 == [st2 EXCEPT !.scenes =
                                     updateHotspotReferences(@, st2.currentScene, cam)]
            IN  [done |-> TRUE, rename |-> renamed,
                 st |-> remirrorScene(st3, st3.currentScene, st3.currentScene,
                                      throws, createOk)]

(* ---------------------------------------------------------------------- *)
(* Scene order                                                             *)
(* ---------------------------------------------------------------------- *)
\* "Rebuild scenes object in new order"
RECURSIVE rebuildInOrder(_, _, _)
rebuildInOrder(reorderedScenes, newOrder, obj) ==
    IF newOrder = << >> THEN reorderedScenes
    ELSE LET sceneId == Head(newOrder)
         IN  rebuildInOrder(IF HasKey(obj, sceneId)
                            THEN SetProperty(reorderedScenes, sceneId, Get(obj, sceneId))
                            ELSE reorderedScenes,
                            Tail(newOrder), obj)

\* updateNavigationIndex: the place of the scene in sceneOrder, kept as it
\* is when the scene is not in sceneOrder.
updateNavigationIndex(st, sceneId) ==
    LET index == indexOf(st.sceneOrder, sceneId) - 1
    IN  IF index # -1 THEN [st EXCEPT !.currentSceneIndex = index] ELSE st

reorderScenes(st, newOrder) ==
    LET st1 == [st EXCEPT !.sceneOrder = newOrder,
                          !.scenes = rebuildInOrder(<< >>, newOrder, @)]
        st2 == IF st1.viewer.live /\ st1.viewer.scene # Empty
               THEN updateNavigationIndex(st1, st1.viewer.scene)
               ELSE st1
    IN  updateSceneDropdowns(st2)

swap(seq, i, j) == [seq EXCEPT ![i] = seq[j], ![j] = seq[i]]

moveSceneOrder(order, sceneId, direction) ==
    LET currentIndex == indexOf(order, sceneId)
    IN  IF direction = "up" /\ currentIndex > 1
        THEN swap(order, currentIndex - 1, currentIndex)
        ELSE IF direction = "down" /\ currentIndex < Len(order)
        THEN swap(order, currentIndex, currentIndex + 1)
        ELSE order

moveScene(st, sceneId, direction) ==
    IF indexOf(st.sceneOrder, sceneId) = 0 THEN st
    ELSE reorderScenes(st, moveSceneOrder(st.sceneOrder, sceneId, direction))

\* The order handleDrop passes on: the dragged id is taken out and put back
\* at the index the target had.
\* A drop that looks the target up after the dragged scene has been removed.
dropBeforeTarget(order, draggedSceneId, targetSceneId) ==
    LET removed == RemoveAt(order, indexOf(order, draggedSceneId))
    IN  InsertAt(removed, indexOf(removed, targetSceneId), draggedSceneId)

dropSceneOrder(order, draggedSceneId, targetSceneId) ==
    LET draggedIndex == indexOf(order, draggedSceneId)
        targetIndex == indexOf(order, targetSceneId)
    IN  InsertAt(RemoveAt(order, draggedIndex), targetIndex, draggedSceneId)

handleDrop(st, draggedSceneId, targetSceneId) ==
    IF draggedSceneId # Empty /\ targetSceneId # Empty
       /\ draggedSceneId # targetSceneId
       /\ indexOf(st.sceneOrder, draggedSceneId) > 0
       /\ indexOf(st.sceneOrder, targetSceneId) > 0
    THEN reorderScenes(st, dropSceneOrder(st.sceneOrder, draggedSceneId, targetSceneId))
    ELSE st

(* ---------------------------------------------------------------------- *)
(* Renderer notifications                                                  *)
(* ---------------------------------------------------------------------- *)
\* viewer.on('scenechange', ...)
onSceneChange(st, sceneId) ==
    LET st1 == updateNavigationIndex(st, sceneId)
    IN  IF st1.sceneSelect # sceneId
        THEN selectScene(setSceneSelect(st1, sceneId))
        ELSE st1

\* The arrow buttons: nextScene and prevScene.
nextScene(st) ==
    IF Len(st.sceneOrder) > 0 /\ st.viewer.live
    THEN LET index == (st.currentSceneIndex + 1) % Len(st.sceneOrder)
         IN  [st EXCEPT !.currentSceneIndex = index,
                        !.viewer = loadScene(@, st.sceneOrder[index + 1])]
    ELSE st

prevScene(st) ==
    IF Len(st.sceneOrder) > 0 /\ st.viewer.live
    THEN LET index == (st.currentSceneIndex - 1 + Len(st.sceneOrder))
                          % Len(st.sceneOrder)
         IN  [st EXCEPT !.currentSceneIndex = index,
                        !.viewer = loadScene(@, st.sceneOrder[index + 1])]
    ELSE st

\* The preview button.
previewClick(st, createOk) ==
    LET st1 == initializeViewer(st, createOk)
    IN  IF st1.firstScene # Empty /\ HasKey(st1.scenes, st1.firstScene)
        THEN selectScene([setSceneSelect(st1, st1.firstScene)
                             EXCEPT !.currentScene = st1.firstScene])
        ELSE IF Len(st1.scenes) > 0
        THEN LET firstAvailableScene == ObjectKeys(st1.scenes)[1]
             IN  selectScene([setSceneSelect(st1, firstAvailableScene)
                                 EXCEPT !.currentScene = firstAvailableScene])
        ELSE st1

(* ---------------------------------------------------------------------- *)
(* Hotspot ids                                                             *)
(* ---------------------------------------------------------------------- *)
hsPrefix == <<"h", "s", "_">>

\* `hs_${sceneId}_${counter}`
fallbackHotspotId(sceneId, counter) ==
    hsPrefix \o sceneId \o <<"_">> \o NumberToString(counter)

\* s.padStart(3, '0')
padStart3(s) ==
    IF Len(s) >= 3 THEN s
    ELSE IF Len(s) = 2 THEN <<"0">> \o s
    ELSE IF Len(s) = 1 THEN <<"0", "0">> \o s
    ELSE <<"0", "0", "0">>

isHotspotIdInUse(obj, hotspotId) ==
    \E i \in 1..Len(obj) : \E j \in 1..Len(obj[i].hotSpots) :
        obj[i].hotSpots[j].id = hotspotId

\* The candidate of this counter, in use or not.
candidateHotspotId(obj, targetSceneId, counter) ==
    hsPrefix \o targetSceneId \o <<"_">> \o padStart3(NumberToString(counter))

RECURSIVE nextFreeHotspotId(_, _, _)
nextFreeHotspotId(obj, targetSceneId, counter) ==
    LET candidateId == hsPrefix \o targetSceneId \o <<"_">>
                          \o padStart3(NumberToString(counter))
    IN  IF isHotspotIdInUse(obj, candidateId)
        THEN nextFreeHotspotId(obj, targetSceneId, counter + 1)
        ELSE candidateId

generateSceneBasedHotspotId(obj, targetSceneId) ==
    nextFreeHotspotId(obj, targetSceneId, 1)

\* validateHotspotId when it compares the id with every hotspot, the edited
\* one too.
validateAgainstEveryHotspot(obj, hotspotId, sceneId, excludeIndex) ==
    IF hotspotId = Empty \/ trim(hotspotId) = Empty THEN ""
    ELSE IF ~MatchesIdPattern(hotspotId) THEN "characters"
    ELSE IF \E i \in 1..Len(obj) : \E j \in 1..Len(obj[i].hotSpots) :
               obj[i].hotSpots[j].id = hotspotId
    THEN "duplicate"
    ELSE ""

\* The error validateHotspotId reports, "" when the id is valid. excludeIndex
\* is 1-based, 0 for -1.
validateHotspotId(obj, hotspotId, sceneId, excludeIndex) ==
    IF hotspotId = Empty \/ trim(hotspotId) = Empty THEN ""
    ELSE IF ~MatchesIdPattern(hotspotId) THEN "characters"
    ELSE IF \E i \in 1..Len(obj) : \E j \in 1..Len(obj[i].hotSpots) :
               /\ ~(obj[i].id = sceneId /\ j = excludeIndex)
               /\ obj[i].hotSpots[j].id = hotspotId
    THEN "duplicate"
    ELSE ""

(* ---------------------------------------------------------------------- *)
(* Hotspots                                                                *)
(* ---------------------------------------------------------------------- *)
\* x || d on a number
orDefault(x, d) == IF x = 0 THEN d ELSE x

\* The dropdown of target scenes the hotspot dialog is opened with.
targetOptions(st) == KeySet(st.scenes) \ {st.currentScene}

showAddHotspotModal(st, pitch, yaw) ==
    [open |-> TRUE, pitch |-> pitch, yaw |-> yaw, isEditing |-> FALSE,
     editIndex |-> 0, options |-> targetOptions(st)]

showEditHotspotModal(st, hotspot, index) ==
    [open |-> TRUE, pitch |-> hotspot.pitch, yaw |-> hotspot.yaw,
     isEditing |-> TRUE, editIndex |-> index, options |-> targetOptions(st)]

\* The hotspot record confirmAddHotspot builds.
hotspotData(st, pitch, yaw, text, hotspotId, targetScene) ==
    LET known == HasKey(st.scenes, targetScene)
        targetSceneConfig == Get(st.scenes, targetScene)
    IN  [pitch |-> pitch, yaw |-> yaw, text |-> text, sceneId |-> targetScene,
         id |-> hotspotId,
         targetPitch |-> IF known THEN orDefault(targetSceneConfig.pitch, 0) ELSE 0,
         targetYaw |-> IF known THEN orDefault(targetSceneConfig.yaw, 0) ELSE 0,
         targetHfov |-> IF known THEN orDefault(targetSceneConfig.hfov, 100) ELSE 100]

\* The id the hotspot gets: the one entered or, for a blank field, the
\* fallback built from the counter.
resolveHotspotId(st, hotspotId) ==
    IF hotspotId = Empty
    THEN fallbackHotspotId(st.currentScene, st.hotspotCounter)
    ELSE hotspotId

\* The error the dialog is refused with, "" when it goes on.
confirmAddHotspotError(st, ph, hotspotId, targetScene) ==
    IF targetScene = Empty THEN "target"
    ELSE validateHotspotId(st.scenes, hotspotId, st.currentScene,
                           IF ph.isEditing THEN ph.editIndex ELSE 0)

\* The hotspot list stored in every scene instead of the one named.
setHotSpotsEverywhere(obj, sceneId, hotSpots) ==
    [i \in 1..Len(obj) |-> [obj[i] EXCEPT !.hotSpots = hotSpots]]

setHotSpots(obj, sceneId, hotSpots) ==
    [obj EXCEPT ![IndexOfKey(obj, sceneId)] = [@ EXCEPT !.hotSpots = hotSpots]]

\* The renderer part of the hotspot handlers: when the single call throws the
\* scene is recreated, and when that throws too the renderer is rebuilt.
remirrorHotspots(st, throws, createOk) ==
    IF st.viewer.live /\ throws THEN initializeViewer(st, createOk) ELSE st

\* Returns [done, error, st]. form: [text, id, target, pitch, yaw].
confirmAddHotspot(st, ph, form, throws, createOk) ==
    IF st.currentScene = Empty \/ ~ph.open
    THEN [done |-> FALSE, error |-> "", st |-> st]
    ELSE
    LET text0 == trim(form.text)
        hotspotId0 == trim(form.id)
        error == confirmAddHotspotError(st, ph, hotspotId0, form.target)
    IN  IF error # "" THEN [done |-> FALSE, error |-> error, st |-> st]
        ELSE
        LET text == IF text0 = Empty THEN form.target ELSE text0
            hotspotId == resolveHotspotId(st, hotspotId0)
            st1 == IF hotspotId0 = Empty
                   THEN [st EXCEPT !.hotspotCounter = @ + 1] ELSE st
            data == hotspotData(st1, form.pitch, form.yaw, text, hotspotId,
                                form.target)
            owned == HasKey(st1.scenes, st1.currentScene)
            hotSpots == IF owned THEN Get(st1.scenes, st1.currentScene).hotSpots
                        ELSE << >>
        IN  IF ~owned \/ (ph.isEditing /\ ph.editIndex > Len(hotSpots))
            THEN \* a TypeError ends the handler here
                 [done |-> FALSE, error |-> "TypeError", st |-> st1]
            ELSE
            LET updated == IF ph.isEditing
                           THEN [hotSpots EXCEPT ![ph.editIndex] = data]
                           ELSE Append(hotSpots, data)
                st2 == [st1 EXCEPT !.scenes =
                                     setHotSpots(@, st1.currentScene, updated)]
            IN  [done |-> TRUE, error |-> "",
                 st |-> remirrorHotspots(st2, throws, createOk)]

\* window.deleteHotspot when it removes the last hotspot, whatever the index.
deleteLastHotspot(st, index, throws, createOk) ==
    IF st.currentScene = Empty \/ ~HasKey(st.scenes, st.currentScene) THEN st
    ELSE
    LET hotspots == Get(st.scenes, st.currentScene).hotSpots
    IN  IF index >= 1 /\ index <= Len(hotspots)
        THEN remirrorHotspots(
                 [st EXCEPT !.scenes =
                    setHotSpots(@, st.currentScene,
                                SubSeq(hotspots, 1, Len(hotspots) - 1))],
                 throws, createOk)
        ELSE st

\* window.deleteHotspot, index 1-based.
deleteHotspot(st, index, throws, createOk) ==
    IF st.currentScene = Empty \/ ~HasKey(st.scenes, st.currentScene) THEN st
    ELSE
    LET hotspots == Get(st.scenes, st.currentScene).hotSpots
    IN  IF index >= 1 /\ index <= Len(hotspots)
        THEN remirrorHotspots(
                 [st EXCEPT !.scenes =
                    setHotSpots(@, st.currentScene, RemoveAt(hotspots, index))],
                 throws, createOk)
        ELSE st

\* "Reorder hotspots array" of handleHotspotDrop, indices 1-based: an index
\* past the end reads undefined, splice removes nothing there and inserts at
\* the end at most.
dropHotspotOrder(hotspots, dragged, targetIndex) ==
    LET inside == dragged <= Len(hotspots)
        draggedHotspot == IF inside THEN hotspots[dragged] ELSE undefined
        rest == IF inside THEN RemoveAt(hotspots, dragged) ELSE hotspots
    IN  InsertAt(rest,
                 IF targetIndex <= Len(rest) THEN targetIndex ELSE Len(rest) + 1,
                 draggedHotspot)

\* dragged: the value of draggedHotspotIndex.
handleHotspotDrop(st, dragged, targetIndex, throws, createOk) ==
    IF dragged # 0 /\ targetIndex # dragged
       /\ HasKey(st.scenes, st.currentScene)
    THEN LET hotSpots == dropHotspotOrder(
                             Get(st.scenes, st.currentScene).hotSpots,
                             dragged, targetIndex)
             st1 == [st EXCEPT !.scenes =
                                  setHotSpots(@, st.currentScene, hotSpots)]
         IN  IF listsHotspots(hotSpots)
             THEN remirrorHotspots(st1, throws, createOk)
             ELSE st1
    ELSE st

\* captureCurrentView with updateSceneWithCapturedView: cam is what the
\* renderer reports as its pitch, yaw and hfov.
captureCurrentView(st, cam, createOk) ==
    IF st.currentScene = Empty \/ ~st.viewer.live
       \/ ~HasKey(st.scenes, st.currentScene)
    THEN st
    ELSE
    LET st1 == [st EXCEPT !.scenes = setSceneCamera(@, st.currentScene, cam)]
        count == updateCount(st1.scenes, st1.currentScene)
        st2 == [st1 EXCEPT !.scenes =
                             updateHotspotReferences(@, st1.currentScene, cam)]
    IN  IF count > 0
        THEN LET savedScene == st2.currentScene
                 st3 == initializeViewer(st2, createOk)
             IN  IF st3.viewer.live
                 THEN [setSceneSelect(st3, savedScene) EXCEPT
                          !.viewer = loadScene(@, savedScene),
                          !.currentScene = savedScene]
                 ELSE st3
        ELSE st2

(* ---------------------------------------------------------------------- *)
(* Import                                                                  *)
(* ---------------------------------------------------------------------- *)
RECURSIVE digitPrefix(_)
digitPrefix(s) ==
    IF s = Empty \/ s[1] \notin Digits THEN Empty
    ELSE <<s[1]>> \o digitPrefix(Tail(s))

\* parseInt(s) as far as Math.max(maxCounter, .) can tell: the number the
\* leading digits spell (after white space and a sign), -1 for NaN and for a
\* negative number.
parseInt(s) ==
    LET t == trim(s)
        signed == t # Empty /\ t[1] \in {"+", "-"}
        digits == digitPrefix(IF signed THEN Tail(t) ELSE t)
    IN  IF digits = Empty \/ (signed /\ t[1] = "-") THEN -1
        ELSE NumberValue(digits)

startsWith(s, prefix) ==
    Len(s) >= Len(prefix) /\ SubSeq(s, 1, Len(prefix)) = prefix

\* The places of the "_" that id.split('_') cuts at.
separators(id) == {i \in 1..Len(id) : id[i] = "_"}

\* The last element of id.split('_').
lastPart(id) ==
    IF separators(id) = {} THEN id
    ELSE LET last == CHOOSE i \in separators(id) :
                         \A j \in separators(id) : j <= i
         IN  SubSeq(id, last + 1, Len(id))

\* What the first pass of ensureHotspotIds reads in one id, -1 when it reads
\* nothing.
hotspotIdCounter(id) ==
    IF id # Empty /\ startsWith(id, hsPrefix)
       /\ Cardinality(separators(id)) + 1 >= 3
    THEN parseInt(lastPart(id))
    ELSE -1

RECURSIVE maxOf(_, _)
maxOf(maxCounter, counters) ==
    IF counters = << >> THEN maxCounter
    ELSE maxOf(IF Head(counters) > maxCounter THEN Head(counters)
               ELSE maxCounter,
               Tail(counters))

\* The ids of the hotspots of the document, in the order they are visited.
RECURSIVE hotspotIdsOf(_)
hotspotIdsOf(obj) ==
    IF obj = << >> THEN << >>
    ELSE [j \in 1..Len(hotSpotsOf(Head(obj))) |-> hotSpotsOf(Head(obj))[j].id]
             \o hotspotIdsOf(Tail(obj))

\* The first pass of ensureHotspotIds.
maxCounterOf(obj) ==
    maxOf(0, [k \in 1..Len(hotspotIdsOf(obj)) |->
                 hotspotIdCounter(hotspotIdsOf(obj)[k])])

hasNoId(hotspot) == hotspot.id = Empty \/ trim(hotspot.id) = Empty

fixMissingHotspotId(hotspot, sceneId, counter) ==
    IF hasNoId(hotspot)
    THEN [hotspot EXCEPT !.id = fallbackHotspotId(sceneId, counter)]
    ELSE hotspot

\* The second pass over the hotspots of one scene: [hotSpots, counter].
RECURSIVE fixHotSpots(_, _, _)
fixHotSpots(hotSpots, sceneId, counter) ==
    IF hotSpots = << >> THEN [hotSpots |-> << >>, counter |-> counter]
    ELSE LET rest == fixHotSpots(Tail(hotSpots), sceneId,
                                 IF hasNoId(Head(hotSpots)) THEN counter + 1
                                 ELSE counter)
         IN  [hotSpots |-> <<fixMissingHotspotId(Head(hotSpots), sceneId,
                                                 counter)>> \o rest.hotSpots,
              counter |-> rest.counter]

\* The second pass over the scenes: [scenes, counter].
RECURSIVE fixScenes(_, _)
fixScenes(obj, counter) ==
    IF obj = << >> THEN [scenes |-> << >>, counter |-> counter]
    ELSE LET first == fixHotSpots(hotSpotsOf(Head(obj)), Head(obj).id, counter)
             rest == fixScenes(Tail(obj), first.counter)
         IN  [scenes |-> <<IF "hotSpots" \in DOMAIN Head(obj)
                           THEN [Head(obj) EXCEPT !.hotSpots = first.hotSpots]
                           ELSE Head(obj)>>
                             \o rest.scenes,
              counter |-> rest.counter]

ensureHotspotIds(st) ==
    LET fixed == fixScenes(st.scenes, maxCounterOf(st.scenes) + 1)
    IN  [st EXCEPT !.scenes = fixed.scenes, !.hotspotCounter = fixed.counter]

\* JSON.parse of the scenes of a file: the keys are stored in the order of
\* the text, scenes being the entries of the text read so far.
RECURSIVE parseScenes(_, _)
parseScenes(obj, entries) ==
    IF entries = << >> THEN obj
    ELSE parseScenes(SetProperty(obj, Head(entries).id, Head(entries)),
                     Tail(entries))

\* JSON.parse of a well formed file [scenes, sceneOrder, firstScene], scenes
\* in the order of the text.
JSONparse(text) ==
    [scenes |-> parseScenes(<< >>, text.scenes),
     sceneOrder |-> text.sceneOrder, firstScene |-> text.firstScene]

\* The first pass of ensureHotspotIds reads hotspot.id: a TypeError for a
\* hotspot that the file gives as null, which has no field as undefined has
\* none.
ensureHotspotIdsThrows(obj) ==
    \E i \in 1..Len(obj) : ~listsHotspots(hotSpotsOf(obj[i]))

\* reader.onload of importConfiguration for a file that parses to the
\* document imported: [scenes, sceneOrder, firstScene]. An error after
\* tourConfig = imported is caught and reported, with what was assigned so
\* far left in place.
importConfiguration(st, imported, createOk) ==
    LET st1 == [st EXCEPT
                  !.scenes = imported.scenes,
                  !.firstScene = imported.firstScene,
                  !.sceneOrder = IF imported.sceneOrder = << >>
                                 THEN ObjectKeys(imported.scenes)
                                 ELSE imported.sceneOrder]
    IN  IF ensureHotspotIdsThrows(st1.scenes) THEN st1
        ELSE
        LET st2 == ensureHotspotIds(st1)
            st3 == reorderScenes(st2, st2.sceneOrder)
            st4 == IF st3.firstScene # Empty /\ HasKey(st3.scenes, st3.firstScene)
                   THEN setSceneSelect(st3, st3.firstScene)
                   ELSE IF Len(st3.scenes) > 0
                   THEN setSceneSelect(st3, ObjectKeys(st3.scenes)[1])
                   ELSE st3
        IN  initializeViewer(selectScene(st4), createOk)

\* reader.onload for any file: JSON.parse throws for a text that is not
\* well formed, before anything is assigned.
onload(st, text, createOk) ==
    IF ~text.wellFormed THEN st
    ELSE IF "sceneOrder" \notin DOMAIN text
    THEN \* tourConfig = imported, then the TypeError of reading
         \* tourConfig.default.sceneOrder: default is undefined
         [st EXCEPT !.scenes = parseScenes(<< >>, text.scenes),
                    !.sceneOrder = undefined, !.firstScene = undefined]
    ELSE importConfiguration(st, JSONparse(text), createOk)

(* ---------------------------------------------------------------------- *)
(* Actions                                                                 *)
(* ---------------------------------------------------------------------- *)
\* No dialog is shown and nothing is dragged: the buttons of the page can be
\* used.
Idle == ~pendingHotspot.open /\ ~editSceneModal /\ draggedHotspotIndex = 0

UIUnchanged ==
    UNCHANGED <<pendingHotspot, editSceneModal, draggedHotspotIndex, watch>>

DocUnchanged ==
    UNCHANGED <<scenes, sceneOrder, firstScene, currentScene, sceneSelect,
                viewer, hotspotCounter, currentSceneIndex, draggedHotspotIndex,
                watch>>

\* What the renderer does with the calls of one handler: they succeed, or
\* they throw and the rebuild succeeds, or they throw and the rebuild fails.
RendererOutcomes ==
    {[throws |-> FALSE, createOk |-> TRUE], [throws |-> TRUE, createOk |-> TRUE],
     [throws |-> TRUE, createOk |-> FALSE]}

\* The renderer does what it is asked.
Calm == {[throws |-> FALSE, createOk |-> TRUE]}

\* The add scene dialog as confirmed: every id with a path, and one without.
AddSceneForms ==
    {[id |-> i, pathGiven |-> TRUE] : i \in SceneIdInputs}
        \cup {[id |-> idA, pathGiven |-> FALSE]}

\* The same with the ids A and B only.
TwoSceneForms == {f \in AddSceneForms : trim(f.id) \in {Empty, idA, idB}}

AddNewScene(forms, outcomes) ==
    /\ Idle
    /\ \E f \in forms, r \in outcomes :
         /\ Install(addNewScene(State, f.id, f.pathGiven, r.throws, r.createOk))
         /\ lastOp' = Op("addNewScene",
                         addNewSceneAccepts(State, trim(f.id), f.pathGiven), "")
    /\ UIUnchanged

DeleteCurrentScene(throwing) ==
    /\ Idle
    /\ currentScene # Empty
    /\ \E confirmed \in BOOLEAN, throws \in throwing :
         /\ Install(deleteCurrentScene(State, confirmed, throws))
         /\ lastOp' = Op("deleteCurrentScene", confirmed,
                         [first |-> firstScene = currentScene,
                          live |-> viewer.live,
                          counts |-> countRelatedHotspots(scenes, currentScene)])
    /\ UIUnchanged

\* The user picks an entry of the scene dropdown.
SelectScene ==
    /\ Idle
    /\ \E v \in KeySet(scenes) \cup {Empty} :
         Install(selectScene([State EXCEPT !.sceneSelect = v]))
    /\ lastOp' = Op("selectScene", TRUE, "")
    /\ UIUnchanged

\* The user picks an entry of the first scene dropdown.
SetFirstScene ==
    /\ Idle
    /\ \E v \in KeySet(scenes) \cup {Empty} :
         Install([State EXCEPT !.firstScene = v])
    /\ lastOp' = Op("setFirstScene", TRUE, "")
    /\ UIUnchanged

ShowEditSceneModal ==
    /\ Idle
    /\ currentScene # Empty /\ HasKey(scenes, currentScene)
    /\ editSceneModal' = TRUE
    /\ lastOp' = Op("showEditSceneModal", TRUE, "")
    /\ DocUnchanged
    /\ UNCHANGED pendingHotspot

HideEditSceneModal ==
    /\ editSceneModal
    /\ editSceneModal' = FALSE
    /\ lastOp' = Op("hideEditSceneModal", TRUE, "")
    /\ DocUnchanged
    /\ UNCHANGED pendingHotspot

\* The edit scene dialog as confirmed: every id and camera with a path and
\* the rename confirmed, one form without a path, and the rename declined.
EditSceneForms ==
    {[id |-> i, cam |-> c, pathGiven |-> TRUE, confirmed |-> TRUE] :
        i \in RenameIdInputs, c \in CameraInputs}
    \cup {[id |-> idA, cam |-> DefaultCamera, pathGiven |-> FALSE, confirmed |-> TRUE]}
    \cup {[id |-> i, cam |-> DefaultCamera, pathGiven |-> TRUE, confirmed |-> FALSE] :
            i \in {idA, id1}}

EditCurrentScene(forms, outcomes) ==
    /\ editSceneModal
    /\ \E f \in forms, r \in outcomes :
         LET e == editCurrentScene(State, f.id, f.pathGiven, f.cam,
                                   f.confirmed, r.throws, r.createOk)
         IN  /\ Install(e.st)
             /\ editSceneModal' = ~e.done
             /\ lastOp' = Op("editCurrentScene", e.done, e.rename)
    /\ UNCHANGED <<pendingHotspot, draggedHotspotIndex, watch>>

MoveScene ==
    /\ Idle
    /\ \E sceneId \in KeySet(scenes), direction \in {"up", "down"} :
         /\ Install(moveScene(State, sceneId, direction))
         /\ lastOp' = Op("moveScene", TRUE, direction)
    /\ UIUnchanged

\* One drag gesture of the scene order list: dragstart on one item, drop on
\* another, dragend.
DropScene ==
    /\ Idle
    /\ \E draggedSceneId, targetSceneId \in KeySet(scenes) :
         /\ Install(handleDrop(State, draggedSceneId, targetSceneId))
         /\ lastOp' = Op("handleDrop", draggedSceneId # targetSceneId, "")
    /\ UIUnchanged

\* The renderer switches to a scene it holds (a hotspot is followed in the
\* panorama, or a requested load completes) and notifies the editor.
SceneChange ==
    /\ viewer.live
    /\ \E sceneId \in KeySet(scenes) :
         Install(onSceneChange([State EXCEPT !.viewer = loadScene(@, sceneId)],
                               sceneId))
    /\ lastOp' = Op("scenechange", TRUE, "")
    /\ UIUnchanged

\* Ctrl+click in the panorama.
ShowAddHotspotModal(maxHotspots) ==
    /\ Idle
    /\ currentScene # Empty /\ viewer.live
    /\ TotalHotspots(scenes) < maxHotspots
    /\ \E pos \in PositionInputs :
         pendingHotspot' = showAddHotspotModal(State, pos.pitch, pos.yaw)
    /\ lastOp' = Op("showAddHotspotModal", TRUE, "")
    /\ DocUnchanged
    /\ UNCHANGED editSceneModal

\* The Edit button of an item of the hotspot list.
EditHotspot ==
    /\ Idle
    /\ currentScene # Empty /\ HasKey(scenes, currentScene)
    /\ \E index \in 1..Len(Get(scenes, currentScene).hotSpots) :
         pendingHotspot' =
             showEditHotspotModal(State, Get(scenes, currentScene).hotSpots[index],
                                  index)
    /\ lastOp' = Op("editHotspot", TRUE, "")
    /\ DocUnchanged
    /\ UNCHANGED editSceneModal

HideAddHotspotModal ==
    /\ pendingHotspot.open
    /\ pendingHotspot' = NoPendingHotspot
    /\ lastOp' = Op("hideAddHotspotModal", TRUE, "")
    /\ DocUnchanged
    /\ UNCHANGED editSceneModal

\* What the id field of the hotspot dialog can hold when it is confirmed with
\* this target: the suggestion for the target, the id of the hotspot being
\* edited, or what the user leaves in it (typed: nothing, or an id).
HotspotIdInputs(typed, targetScene) ==
    typed
    \cup (IF targetScene # Empty
          THEN {generateSceneBasedHotspotId(scenes, targetScene)} ELSE {})
    \cup (IF /\ pendingHotspot.isEditing
             /\ HasKey(scenes, currentScene)
             /\ pendingHotspot.editIndex <= Len(Get(scenes, currentScene).hotSpots)
          THEN {Get(scenes, currentScene).hotSpots[pendingHotspot.editIndex].id}
          ELSE {})

ConfirmAddHotspot(texts, typed, outcomes) ==
    /\ pendingHotspot.open
    /\ \E targetScene \in pendingHotspot.options \cup {Empty},
          text \in texts, r \in outcomes :
         \E hotspotId \in HotspotIdInputs(typed, targetScene) :
            /\ trim(hotspotId) = Empty => hotspotCounter < MaxCounter
            /\ LET form == [text |-> text, id |-> hotspotId,
                            target |-> targetScene,
                            pitch |-> pendingHotspot.pitch,
                            yaw |-> pendingHotspot.yaw]
                   c == confirmAddHotspot(State, pendingHotspot, form,
                                          r.throws, r.createOk)
               IN  /\ Install(c.st)
                   /\ pendingHotspot' = IF c.done THEN NoPendingHotspot
                                        ELSE pendingHotspot
                   /\ lastOp' = Op("confirmAddHotspot", c.done, c.error)
    /\ UNCHANGED <<editSceneModal, draggedHotspotIndex, watch>>

DeleteHotspot(outcomes) ==
    /\ Idle
    /\ currentScene # Empty /\ HasKey(scenes, currentScene)
    /\ \E index \in 1..Len(Get(scenes, currentScene).hotSpots),
          r \in outcomes :
         Install(deleteHotspot(State, index, r.throws, r.createOk))
    /\ lastOp' = Op("deleteHotspot", TRUE, "")
    /\ UIUnchanged

\* One drag gesture of the hotspot list: dragstart on one item, drop on
\* another, dragend.
HotspotDrop(outcomes) ==
    /\ Idle
    /\ currentScene # Empty /\ HasKey(scenes, currentScene)
    /\ \E dragged, targetIndex \in
             1..Len(Get(scenes, currentScene).hotSpots), r \in outcomes :
         /\ dragged # targetIndex
         /\ Install(handleHotspotDrop(State, dragged, targetIndex,
                                      r.throws, r.createOk))
    /\ lastOp' = Op("handleHotspotDrop", TRUE, "")
    /\ UIUnchanged

CaptureCurrentView(cams, creates) ==
    /\ Idle
    /\ currentScene # Empty /\ viewer.live
    /\ \E cam \in cams, createOk \in creates :
         Install(captureCurrentView(State, cam, createOk))
    /\ lastOp' = Op("captureCurrentView", TRUE, "")
    /\ UIUnchanged

PreviewClick ==
    /\ Idle
    /\ \E createOk \in BOOLEAN :
         /\ Install(previewClick(State, createOk))
         /\ lastOp' = Op("preview", createOk, "")
    /\ UIUnchanged

\* A hotspot as a file holds it, placed at the origin.
importedHotspot(id, targetScene) ==
    [pitch |-> 0, yaw |-> 0, text |-> targetScene, sceneId |-> targetScene,
     id |-> id, targetPitch |-> DefaultCamera.pitch,
     targetYaw |-> DefaultCamera.yaw, targetHfov |-> DefaultCamera.hfov]

\* An id typed into the hotspot dialog after an import: the form of the
\* fallback id, with the number that follows hs_A_0.
typedNextId == <<"h", "s", "_", "A", "_", "1">>

\* The files imported: scenes A and B where A holds the hotspot hs_A_0, and
\* the same with one more hotspot that has no id, no sceneOrder and no
\* firstScene.
ImportedDocuments ==
    {[scenes |-> <<[NewScene(idA) EXCEPT
                      !.hotSpots = <<importedHotspot(typedHotspotId, idB)>>],
                   NewScene(idB)>>,
      sceneOrder |-> <<idA, idB>>, firstScene |-> idA],
     [scenes |-> <<[NewScene(idA) EXCEPT
                      !.hotSpots = <<importedHotspot(Empty, idB),
                                     importedHotspot(typedHotspotId, idB)>>],
                   NewScene(idB)>>,
      sceneOrder |-> << >>, firstScene |-> Empty]}

ImportConfiguration(documents) ==
    /\ Idle
    /\ \E imported \in documents, createOk \in BOOLEAN :
         /\ Install(importConfiguration(State, imported, createOk))
         /\ lastOp' = Op("importConfiguration",
                         ~ensureHotspotIdsThrows(imported.scenes), "")
    /\ UIUnchanged

\* An id a file holds for a hotspot of scene B.
importedIdOfB == <<"h", "s", "_", "B", "_", "0">>

\* A well formed file with these scenes, in the order of its text.
fileText(sceneEntries, order, first) ==
    [wellFormed |-> TRUE, scenes |-> sceneEntries, sceneOrder |-> order,
     firstScene |-> first]

sceneWith(id, hotSpots) == [NewScene(id) EXCEPT !.hotSpots = hotSpots]

\* The text written for the document: the scenes in the order their keys are
\* enumerated, then sceneOrder and firstScene.
exportConfiguration(st) ==
    LET keys == ObjectKeys(st.scenes)
    IN  fileText([i \in 1..Len(keys) |-> Get(st.scenes, keys[i])],
                 st.sceneOrder, st.firstScene)

\* The files read by the import: one that is not JSON; one without
\* sceneOrder whose scenes are B and then 1, B with a hotspot that has no id;
\* one without sceneOrder where A holds a hotspot without id and one with;
\* one whose sceneOrder misses scene B; one where a hotspot of A is null; one
\* whose sceneOrder is the reverse of its text.
FileTexts ==
    {[wellFormed |-> FALSE],
     fileText(<<sceneWith(idB, <<importedHotspot(Empty, id1)>>),
                sceneWith(id1, << >>)>>, << >>, idB),
     fileText(<<sceneWith(idA, <<importedHotspot(Empty, idB),
                                 importedHotspot(typedHotspotId, idB)>>),
                sceneWith(idB, << >>)>>, << >>, Empty),
     fileText(<<sceneWith(idA, <<importedHotspot(typedHotspotId, idB)>>),
                sceneWith(idB, << >>)>>, <<idA>>, idA),
     fileText(<<sceneWith(idA, <<undefined>>), sceneWith(idB, << >>)>>,
              <<idA, idB>>, idA),
     fileText(<<sceneWith(idA, <<importedHotspot(typedHotspotId, idB)>>),
                sceneWith(idB, <<importedHotspot(importedIdOfB, idA)>>)>>,
              <<idB, idA>>, idB)}

\* A scene a file gives without hotSpots.
sceneWithoutHotSpots(id) ==
    [f \in DOMAIN NewScene(id) \ {"hotSpots"} |-> NewScene(id)[f]]

\* A file whose scene 1 has no hotSpots and whose scene B holds a hotspot to
\* scene A, and a file in which every scene has its hotSpots.
SparseFileTexts ==
    {fileText(<<sceneWithoutHotSpots(id1), sceneWith(idA, << >>),
                sceneWith(idB, <<importedHotspot(importedIdOfB, idA)>>)>>,
              <<id1, idA, idB>>, idA),
     fileText(<<sceneWith(idA, <<importedHotspot(typedHotspotId, idB)>>),
                sceneWith(idB, <<importedHotspot(importedIdOfB, idA)>>)>>,
              <<idA, idB>>, idA)}

\* The renderer calls of renameScene when none of them throws, st being the
\* state before the rename and after the state with the renamed document:
\* the scene is removed under its old id, a copy of it is added under the
\* new id, and the new id is loaded when the old one was the active scene.
renameSceneCalls(st, after, oldSceneId, newSceneId) ==
    <<[call |-> "removeScene", scene |-> oldSceneId],
      [call |-> "addScene", scene |-> newSceneId,
       config |-> Get(after.scenes, newSceneId)]>>
      \o IF st.viewer.scene = oldSceneId
         THEN <<[call |-> "loadScene", scene |-> newSceneId]>>
         ELSE << >>

\* A file is chosen in the import dialog and read.
ImportFile(texts) ==
    /\ Idle
    /\ \E text \in texts, createOk \in BOOLEAN :
         /\ Install(onload(State, text, createOk))
         /\ lastOp' = Op("importConfiguration",
                         /\ text.wellFormed
                         /\ ~ensureHotspotIdsThrows(JSONparse(text).scenes),
                         text)
    /\ UIUnchanged

\* A label typed into the hotspot dialog.
typedLabel == <<"G", "o">>

\* The label field of the hotspot dialog, blank or filled.
LabelInputs == {Empty, typedLabel}

\* A camera whose field of view is typed as 0.
ZeroHfovCamera == [pitch |-> 10, yaw |-> 20, hfov |-> 0]

\* The edit scene dialog confirmed with the id of a scene and a camera.
CameraForms ==
    {[id |-> i, cam |-> c, pathGiven |-> TRUE, confirmed |-> TRUE] :
        i \in {idA, idB}, c \in {DefaultCamera, ZeroHfovCamera}}

\* dragstart on an item of the hotspot list.
HotspotDragStart ==
    /\ Idle
    /\ currentScene # Empty /\ HasKey(scenes, currentScene)
    /\ \E index \in 1..Len(Get(scenes, currentScene).hotSpots) :
         draggedHotspotIndex' = index
    /\ lastOp' = Op("handleHotspotDragStart", TRUE, "")
    /\ UNCHANGED <<scenes, sceneOrder, firstScene, currentScene, sceneSelect,
                   viewer, hotspotCounter, currentSceneIndex, pendingHotspot,
                   editSceneModal, watch>>

\* drop on an item of the hotspot list as it is shown now, then dragend.
HotspotDropOnItem(outcomes) ==
    /\ draggedHotspotIndex # 0
    /\ currentScene # Empty /\ HasKey(scenes, currentScene)
    /\ \E targetIndex \in 1..Len(Get(scenes, currentScene).hotSpots),
          r \in outcomes :
         /\ Install(handleHotspotDrop(State, draggedHotspotIndex, targetIndex,
                                      r.throws, r.createOk))
         /\ lastOp' = Op("handleHotspotDrop", targetIndex # draggedHotspotIndex,
                         [dragged |-> draggedHotspotIndex,
                          shown |-> Len(Get(scenes, currentScene).hotSpots)])
    /\ draggedHotspotIndex' = 0
    /\ UNCHANGED <<pendingHotspot, editSceneModal, watch>>

\* dragend without a drop on an item.
HotspotDragEnd ==
    /\ draggedHotspotIndex # 0
    /\ draggedHotspotIndex' = 0
    /\ lastOp' = Op("handleHotspotDragEnd", TRUE, "")
    /\ UNCHANGED <<scenes, sceneOrder, firstScene, currentScene, sceneSelect,
                   viewer, hotspotCounter, currentSceneIndex, pendingHotspot,
                   editSceneModal, watch>>

\* The files imported before hotspots are dragged: scene A with two hotspots
\* and scene B with one or with two.
DraggedDocuments ==
    {[scenes |-> <<[NewScene(idA) EXCEPT
                      !.hotSpots = <<importedHotspot(typedHotspotId, idB),
                                     importedHotspot(typedNextId, idB)>>],
                   [NewScene(idB) EXCEPT !.hotSpots = b]>>,
      sceneOrder |-> <<idA, idB>>, firstScene |-> idA] :
        b \in {<<importedHotspot(importedIdOfB, idA)>>,
               <<importedHotspot(importedIdOfB, idA),
                 importedHotspot(Empty, idA)>>}}

\* The state after construction, with the handlers the history follows.
InitWatching(ops) ==
    /\ scenes = << >>
    /\ sceneOrder = << >>
    /\ firstScene = Empty
    /\ currentScene = Empty
    /\ sceneSelect = Empty
    /\ viewer = NoViewer
    /\ hotspotCounter = 0
    /\ currentSceneIndex = 0
    /\ pendingHotspot = NoPendingHotspot
    /\ editSceneModal = FALSE
    /\ draggedHotspotIndex = 0
    /\ watch = ops
    /\ lastOp = Op("", TRUE, "")

(* ---------------------------------------------------------------------- *)
(* The scene handlers with a renderer that can fail                        *)
(* ---------------------------------------------------------------------- *)
Init == InitWatching({"deleteCurrentScene", "editCurrentScene"})

Next ==
    \/ AddNewScene(AddSceneForms, RendererOutcomes)
    \/ DeleteCurrentScene(BOOLEAN)
    \/ SelectScene
    \/ ShowEditSceneModal
    \/ HideEditSceneModal
    \/ EditCurrentScene(EditSceneForms, RendererOutcomes)
    \/ SceneChange
    \/ PreviewClick

Spec == Init /\ [][Next]_vars

(* ---------------------------------------------------------------------- *)
(* The scene handlers with the scene order list                            *)
(* ---------------------------------------------------------------------- *)
InitOrder == InitWatching({"deleteCurrentScene", "handleDrop"})

\* The edit scene dialog confirmed with the camera left as it is.
RenameForms == {f \in EditSceneForms : f.cam = DefaultCamera}

NextOrder ==
    \/ AddNewScene(AddSceneForms, Calm)
    \/ DeleteCurrentScene({FALSE})
    \/ SelectScene
    \/ SetFirstScene
    \/ ShowEditSceneModal
    \/ HideEditSceneModal
    \/ EditCurrentScene(RenameForms, Calm)
    \/ MoveScene
    \/ DropScene

SpecOrder == InitOrder /\ [][NextOrder]_vars

(* ---------------------------------------------------------------------- *)
(* Deleting scenes that hold and receive hotspots                          *)
(* ---------------------------------------------------------------------- *)
InitDelete == InitWatching({"deleteCurrentScene"})

NextDelete ==
    \/ AddNewScene(AddSceneForms, Calm)
    \/ SelectScene
    \/ ShowAddHotspotModal(MaxCascade)
    \/ HideAddHotspotModal
    \/ ConfirmAddHotspot(HotspotTextInputs, {}, Calm)
    \/ DeleteCurrentScene(BOOLEAN)

SpecDelete == InitDelete /\ [][NextDelete]_vars

(* ---------------------------------------------------------------------- *)
(* Renaming scenes that hold and receive hotspots                          *)
(* ---------------------------------------------------------------------- *)
InitRename == InitWatching({"editCurrentScene"})

\* The edit scene dialog confirmed with an id that is well formed.
ValidSceneForms ==
    {f \in EditSceneForms :
        f.pathGiven /\ f.confirmed /\ MatchesIdPattern(trim(f.id))}

NextRename ==
    \/ AddNewScene(TwoSceneForms, Calm)
    \/ SelectScene
    \/ ShowAddHotspotModal(MaxHotspots)
    \/ ConfirmAddHotspot(HotspotTextInputs, {}, Calm)
    \/ ShowEditSceneModal
    \/ EditCurrentScene(ValidSceneForms, Calm)

SpecRename == InitRename /\ [][NextRename]_vars

(* ---------------------------------------------------------------------- *)
(* The hotspot dialog with typed ids and renderer notifications            *)
(* ---------------------------------------------------------------------- *)
InitDialog == InitWatching({"confirmAddHotspot"})

NextDialog ==
    \/ AddNewScene(TwoSceneForms, Calm)
    \/ SelectScene
    \/ SceneChange
    \/ ShowAddHotspotModal(MaxHotspots)
    \/ EditHotspot
    \/ HideAddHotspotModal
    \/ ConfirmAddHotspot(HotspotTextInputs, {Empty, typedHotspotId, badHotspotId}, Calm)
    \/ DeleteHotspot(Calm)
    \/ HotspotDrop(Calm)
    \/ DeleteCurrentScene({FALSE})

SpecDialog == InitDialog /\ [][NextDialog]_vars

(* ---------------------------------------------------------------------- *)
(* Adding scenes with any id the dialog lets through                       *)
(* ---------------------------------------------------------------------- *)
InitAdd == InitWatching({"addNewScene"})

\* The add scene dialog as confirmed, also with an id that holds a space.
AnyIdSceneForms == AddSceneForms \cup {[id |-> idSpaced, pathGiven |-> TRUE]}

NextAdd ==
    \/ AddNewScene(AnyIdSceneForms, RendererOutcomes)
    \/ SelectScene
    \/ ShowAddHotspotModal(MaxHotspots)
    \/ HideAddHotspotModal
    \/ ConfirmAddHotspot(HotspotTextInputs, {}, Calm)

SpecAdd == InitAdd /\ [][NextAdd]_vars

(* ---------------------------------------------------------------------- *)
(* Adding and editing hotspots with typed ids                              *)
(* ---------------------------------------------------------------------- *)
InitEdit == InitWatching({"confirmAddHotspot"})

NextEdit ==
    \/ AddNewScene(TwoSceneForms, Calm)
    \/ SelectScene
    \/ ShowAddHotspotModal(MaxHotspots)
    \/ EditHotspot
    \/ HideAddHotspotModal
    \/ ConfirmAddHotspot(HotspotTextInputs, {Empty, typedHotspotId, badHotspotId}, Calm)

SpecEdit == InitEdit /\ [][NextEdit]_vars

(* ---------------------------------------------------------------------- *)
(* Adding hotspots with the suggested id and deleting them                 *)
(* ---------------------------------------------------------------------- *)
InitIds == InitWatching({"deleteHotspot"})

NextIds ==
    \/ AddNewScene(TwoSceneForms, Calm)
    \/ SelectScene
    \/ ShowAddHotspotModal(MaxCascade)
    \/ HideAddHotspotModal
    \/ ConfirmAddHotspot(HotspotTextInputs, {}, Calm)
    \/ DeleteHotspot(RendererOutcomes)

SpecIds == InitIds /\ [][NextIds]_vars

(* ---------------------------------------------------------------------- *)
(* Hotspots added to an imported document                                  *)
(* ---------------------------------------------------------------------- *)
InitImport == InitWatching({"importConfiguration"})

NextImport ==
    \/ ImportConfiguration(ImportedDocuments)
    \/ SelectScene
    \/ ShowAddHotspotModal(MaxCascade)
    \/ HideAddHotspotModal
    \/ ConfirmAddHotspot(HotspotTextInputs, {Empty, typedNextId}, Calm)
    \/ DeleteHotspot(Calm)

SpecImport == InitImport /\ [][NextImport]_vars

(* ---------------------------------------------------------------------- *)
(* Hotspots to scenes whose camera was edited                              *)
(* ---------------------------------------------------------------------- *)
InitCamera == InitWatching({"confirmAddHotspot"})

NextCamera ==
    \/ AddNewScene(TwoSceneForms, Calm)
    \/ SelectScene
    \/ ShowEditSceneModal
    \/ EditCurrentScene(CameraForms, Calm)
    \/ ShowAddHotspotModal(MaxHotspots)
    \/ EditHotspot
    \/ ConfirmAddHotspot(LabelInputs, {}, Calm)

SpecCamera == InitCamera /\ [][NextCamera]_vars

(* ---------------------------------------------------------------------- *)
(* Dragging hotspots while the renderer changes the scene                  *)
(* ---------------------------------------------------------------------- *)
InitDrag == InitWatching({"handleHotspotDrop"})

NextDrag ==
    \/ ImportConfiguration(DraggedDocuments)
    \/ SelectScene
    \/ SceneChange
    \/ HotspotDragStart
    \/ HotspotDropOnItem(RendererOutcomes)
    \/ HotspotDragEnd

SpecDrag == InitDrag /\ [][NextDrag]_vars

(* ---------------------------------------------------------------------- *)
(* Importing files and reordering the scenes they bring                    *)
(* ---------------------------------------------------------------------- *)
InitNormalize == InitWatching({"importConfiguration"})

NextNormalize ==
    \/ ImportFile(FileTexts)
    \/ AddNewScene(AddSceneForms, Calm)
    \/ SelectScene
    \/ MoveScene
    \/ DropScene

SpecNormalize == InitNormalize /\ [][NextNormalize]_vars

(* ---------------------------------------------------------------------- *)
(* Capturing the view of the renderer                                      *)
(* ---------------------------------------------------------------------- *)
InitCapture == InitWatching({"captureCurrentView"})

NextCapture ==
    \/ AddNewScene(TwoSceneForms, Calm)
    \/ SelectScene
    \/ SceneChange
    \/ ShowAddHotspotModal(MaxHotspots)
    \/ ConfirmAddHotspot(HotspotTextInputs, {}, Calm)
    \/ CaptureCurrentView(CameraInputs, BOOLEAN)

SpecCapture == InitCapture /\ [][NextCapture]_vars

(* ---------------------------------------------------------------------- *)
(* Deleting scenes of imported documents                                   *)
(* ---------------------------------------------------------------------- *)
InitAtomic == InitWatching({"deleteCurrentScene"})

NextAtomic ==
    \/ ImportFile(SparseFileTexts)
    \/ AddNewScene(TwoSceneForms, Calm)
    \/ SelectScene
    \/ DeleteCurrentScene(BOOLEAN)

SpecAtomic == InitAtomic /\ [][NextAtomic]_vars

(* ---------------------------------------------------------------------- *)
(* Properties of the scene handlers                                        *)
(* ---------------------------------------------------------------------- *)
\* The selected scene can be deleted, or its edit dialog confirmed.
SceneSelected == currentScene # Empty /\ HasKey(scenes, currentScene)

Without(seq, id) == SelectSeq(seq, LAMBDA x : x # id)

\* C3: after every sequence of add, rename, delete, move up, move down and
\* drag-drop of scenes, sceneOrder holds exactly the keys of the scenes map,
\* each of them once.
C3_SceneOrderIsTheSceneIds ==
    /\ Range(sceneOrder) = KeySet(scenes)
    /\ Len(sceneOrder) = Len(scenes)
    /\ Cardinality(Range(sceneOrder)) = Len(sceneOrder)

\* Three scenes after a drag-drop that left sceneOrder in another order than
\* the map.
C3_Witness ==
    /\ lastOp.op = "handleDrop" /\ lastOp.ok
    /\ Len(sceneOrder) = 3
    /\ sceneOrder # ObjectKeys(scenes)

\* C4: after every sequence of add, rename, delete, reorder and set first
\* scene, firstScene is the empty string or a key of the scenes map.
C4_FirstSceneIsEmptyOrAScene ==
    firstScene = Empty \/ HasKey(scenes, firstScene)

\* The first scene was deleted and another scene took its place.
C4_Witness ==
    /\ lastOp.op = "deleteCurrentScene" /\ lastOp.ok
    /\ lastOp.note.first
    /\ firstScene # Empty

\* C6: deleting scene X takes X out of the scenes map and out of sceneOrder
\* and keeps the order of the other ids; firstScene, when it was X, becomes
\* the first id left in sceneOrder, or the empty string when none is left,
\* and is unchanged otherwise.
C6_DeleteKeepsOrderAndFirstScene ==
    \A throws \in BOOLEAN :
        (Idle /\ SceneSelected) =>
            LET X == currentScene
                after == deleteCurrentScene(State, TRUE, throws)
                rest == Without(sceneOrder, X)
            IN  /\ ObjectKeys(after.scenes) = Without(ObjectKeys(scenes), X)
                /\ after.sceneOrder = rest
                /\ after.firstScene =
                      IF firstScene = X
                      THEN IF rest = << >> THEN Empty ELSE rest[1]
                      ELSE firstScene

\* C7: after the selected scene is deleted, the selected scene is the first
\* one left in sceneOrder, and none only when no scene is left, with or
\* without a live renderer.
C7_DeleteSelectsFirstInSceneOrder ==
    \A throws \in BOOLEAN :
        (Idle /\ SceneSelected) =>
            LET after == deleteCurrentScene(State, TRUE, throws)
            IN  after.currentScene =
                    IF after.sceneOrder = << >> THEN Empty
                    ELSE after.sceneOrder[1]

\* The ids renameScene can be given for the selected scene.
RenameTargets == RenameIdInputs \cup {trim(i) : i \in RenameIdInputs}

\* C9: a rename of X to Y that goes through puts Y where X was in sceneOrder
\* and in the enumeration order of the scenes map, keeps what the scene
\* holds, moves firstScene and the selection from X to Y, and moves no other
\* scene.
C9_RenameKeepsPlace ==
    \A Y \in RenameTargets, r \in RendererOutcomes :
        (editSceneModal /\ SceneSelected /\ Y # currentScene) =>
            LET X == currentScene
                renamed == renameScene(State, X, Y, TRUE, r.throws, r.createOk)
                after == renamed.st
                swapped(seq) == [i \in 1..Len(seq) |->
                                    IF seq[i] = X THEN Y ELSE seq[i]]
            IN  renamed.ok =>
                    /\ after.sceneOrder = swapped(sceneOrder)
                    /\ ObjectKeys(after.scenes) = swapped(ObjectKeys(scenes))
                    /\ \A id \in KeySet(scenes) \ {X} :
                          Get(after.scenes, id).hotSpots = Get(scenes, id).hotSpots
                    /\ [Get(after.scenes, Y) EXCEPT !.id = X, !.hotSpots = << >>]
                          = [Get(scenes, X) EXCEPT !.hotSpots = << >>]
                    /\ Len(Get(after.scenes, Y).hotSpots) = Len(Get(scenes, X).hotSpots)
                    /\ after.firstScene = IF firstScene = X THEN Y ELSE firstScene
                    /\ after.currentScene = Y

\* Y is refused as the new id of the selected scene: it is empty, holds a
\* character that is not a letter, a digit, _ or -, or is another scene.
Refused(Y) ==
    \/ Y = Empty
    \/ trim(Y) = Empty
    \/ ~MatchesIdPattern(Y)
    \/ (Y # currentScene /\ HasKey(scenes, Y))

\* C10: a rename of the selected scene to an id that is empty, holds a
\* character outside [A-Za-z0-9_-] or is another scene is refused and leaves
\* the document and the selection as they were, and the scene edit that asked
\* for it applies none of its other changes.
C10_RefusedRenameChangesNothing ==
    (editSceneModal /\ SceneSelected) =>
        /\ \A Y \in RenameTargets, r \in RendererOutcomes, confirmed \in BOOLEAN :
              Refused(Y) =>
                  renameScene(State, currentScene, Y, confirmed,
                              r.throws, r.createOk) = [ok |-> FALSE, st |-> State]
        /\ \A f \in EditSceneForms, r \in RendererOutcomes :
              Refused(trim(f.id)) =>
                  LET e == editCurrentScene(State, f.id, f.pathGiven, f.cam,
                                            f.confirmed, r.throws, r.createOk)
                  IN  ~e.done /\ e.st = State

\* The edit dialog stays open on a scene whose camera is not the one typed,
\* after a rename to the id of another scene was refused.
C10_Witness ==
    /\ lastOp.op = "editCurrentScene" /\ ~lastOp.ok
    /\ lastOp.note = "exists"
    /\ editSceneModal
    /\ Len(scenes) = 3

(* ---------------------------------------------------------------------- *)
(* Properties of the hotspots                                              *)
(* ---------------------------------------------------------------------- *)
\* The places of the hotspots of the document: scene index, hotspot index.
HotspotPlaces ==
    UNION {{<<i, j>> : j \in 1..Len(scenes[i].hotSpots)} : i \in 1..Len(scenes)}

HotspotAt(p) == scenes[p[1]].hotSpots[p[2]]

\* C1: after every sequence of operations (scenes added, renamed, deleted,
\* hotspots added, edited, deleted, reordered with an id typed or left blank,
\* views captured) no two hotspots of the document, in one scene or in two,
\* have the same id.
C1_HotspotIdsUnique ==
    \A p, q \in HotspotPlaces : p # q => HotspotAt(p).id # HotspotAt(q).id

\* C2: after every sequence of operations (scenes added, renamed, deleted,
\* hotspots added, edited, deleted through the dialog, scenes selected, and
\* scene change notifications of the renderer between any two of them) the
\* target of every hotspot is a scene of the document other than the scene
\* that holds the hotspot.
C2_HotspotTargetsOtherScene ==
    \A p \in HotspotPlaces :
        /\ HasKey(scenes, HotspotAt(p).sceneId)
        /\ HotspotAt(p).sceneId # scenes[p[1]].id

\* C5: deleting scene X removes the hotspots X holds and the hotspots of the
\* other scenes that point to X, and no other: every other hotspot is still
\* in its scene, in the same relative position, with the same fields.
C5_DeleteRemovesExactlyRelatedHotspots ==
    \A throws \in BOOLEAN :
        (Idle /\ SceneSelected) =>
            LET X == currentScene
                after == deleteCurrentScene(State, TRUE, throws)
            IN  /\ KeySet(after.scenes) = KeySet(scenes) \ {X}
                /\ \A id \in KeySet(scenes) \ {X} :
                      Get(after.scenes, id).hotSpots =
                          SelectSeq(Get(scenes, id).hotSpots,
                                    LAMBDA h : h.sceneId # X)

\* A scene was deleted that held a hotspot and was pointed to by another, and
\* a hotspot is left.
C5_Witness ==
    /\ lastOp.op = "deleteCurrentScene" /\ lastOp.ok
    /\ lastOp.note.counts.own >= 1
    /\ lastOp.note.counts.referencing >= 1
    /\ TotalHotspots(scenes) >= 1

\* C8: a rename of X to Y that goes through makes every hotspot that pointed
\* to X point to Y, leaves none pointing to X, and leaves the label, the id,
\* the position and the target camera of every hotspot as they were.
C8_RenameRepointsHotspots ==
    \A Y \in RenameTargets, r \in RendererOutcomes :
        (editSceneModal /\ SceneSelected /\ Y # currentScene) =>
            LET X == currentScene
                renamed == renameScene(State, X, Y, TRUE, r.throws, r.createOk)
                after == renamed.st
            IN  renamed.ok =>
                    \A id \in KeySet(scenes) :
                        LET before == Get(scenes, id).hotSpots
                            now == Get(after.scenes,
                                       IF id = X THEN Y ELSE id).hotSpots
                        IN  /\ Len(now) = Len(before)
                            /\ \A j \in 1..Len(before) :
                                  /\ now[j].sceneId # X
                                  /\ now[j] =
                                        [before[j] EXCEPT !.sceneId =
                                            IF @ = X THEN Y ELSE @]

\* A scene was renamed while a hotspot pointed to it: the hotspot points to
\* the new id and its label is still the old one.
C8_Witness ==
    /\ lastOp.op = "editCurrentScene" /\ lastOp.ok
    /\ lastOp.note = "renamed"
    /\ \E p \in HotspotPlaces :
          /\ HotspotAt(p).sceneId = currentScene
          /\ HotspotAt(p).text # currentScene

(* ---------------------------------------------------------------------- *)
(* Properties of adding scenes                                             *)
(* ---------------------------------------------------------------------- *)
\* C11: addNewScene leaves the document as it is when the id is empty, holds a
\* character outside [A-Za-z0-9_-] or is the id of a scene, so that every
\* scene id of a document built from the empty one matches [A-Za-z0-9_-]+.
C11_AddSceneRefusesBadIds ==
    /\ \A id \in KeySet(scenes) : MatchesIdPattern(id)
    /\ Idle =>
          \A f \in AnyIdSceneForms, r \in RendererOutcomes :
              (\/ trim(f.id) = Empty
               \/ ~MatchesIdPattern(trim(f.id))
               \/ HasKey(scenes, trim(f.id)))
              => LET after == addNewScene(State, f.id, f.pathGiven,
                                          r.throws, r.createOk)
                 IN  /\ after.scenes = scenes
                     /\ after.sceneOrder = sceneOrder
                     /\ after.firstScene = firstScene

\* C12: an accepted addNewScene stores the scene with no hotspot, appends its
\* id to sceneOrder, makes it the first scene exactly when the document had no
\* scene, and leaves the other scenes, their hotspots and their order alone.
C12_AddSceneInsertsOnlyTheScene ==
    Idle =>
       \A f \in AnyIdSceneForms, r \in RendererOutcomes :
           addNewSceneAccepts(State, trim(f.id), f.pathGiven) =>
               LET id == trim(f.id)
                   after == addNewScene(State, f.id, f.pathGiven,
                                        r.throws, r.createOk)
               IN  /\ KeySet(after.scenes) = KeySet(scenes) \cup {id}
                   /\ Get(after.scenes, id).id = id
                   /\ Get(after.scenes, id).hotSpots = << >>
                   /\ after.sceneOrder = Append(sceneOrder, id)
                   /\ after.firstScene = IF Len(scenes) = 0 THEN id
                                         ELSE firstScene
                   /\ \A k \in KeySet(scenes) :
                         Get(after.scenes, k) = Get(scenes, k)
                   /\ Without(ObjectKeys(after.scenes), id) = ObjectKeys(scenes)

\* A scene was added to a document that holds a scene with a hotspot and
\* whose first scene is another one than the scene added.
C12_Witness ==
    /\ lastOp.op = "addNewScene" /\ lastOp.ok
    /\ Len(scenes) >= 2
    /\ TotalHotspots(scenes) >= 1
    /\ firstScene # sceneOrder[Len(sceneOrder)]

(* ---------------------------------------------------------------------- *)
(* Properties of the hotspot dialog                                        *)
(* ---------------------------------------------------------------------- *)
\* The hotspot the dialog replaces when it is confirmed: the one at the index
\* the dialog was opened for, in the scene selected now.
EditedPlaces ==
    {p \in HotspotPlaces :
        /\ pendingHotspot.isEditing
        /\ scenes[p[1]].id = currentScene
        /\ p[2] = pendingHotspot.editIndex}

\* What the id field can hold: blank, typed ids with and without spaces
\* around them, and the id of every hotspot of the document.
IdFieldInputs ==
    {Empty, <<" ">>, typedHotspotId, <<" ">> \o typedHotspotId, badHotspotId}
        \cup {HotspotAt(p).id : p \in HotspotPlaces}

\* C13: confirming the hotspot dialog changes neither the document nor the
\* fallback counter when no target is chosen, when the id entered holds a
\* character outside [A-Za-z0-9_-], or when it is the id of another hotspot
\* of any scene; when a hotspot is edited, its own id is accepted.
C13_RefusedConfirmChangesNothing ==
    (pendingHotspot.open /\ currentScene # Empty) =>
       \A target \in pendingHotspot.options \cup {Empty},
          id \in IdFieldInputs, r \in RendererOutcomes :
           LET explicit == trim(id)
               form == [text |-> Empty, id |-> id, target |-> target,
                        pitch |-> pendingHotspot.pitch,
                        yaw |-> pendingHotspot.yaw]
               c == confirmAddHotspot(State, pendingHotspot, form,
                                      r.throws, r.createOk)
               illFormed == explicit # Empty /\ ~MatchesIdPattern(explicit)
               taken == /\ explicit # Empty
                        /\ \E p \in HotspotPlaces \ EditedPlaces :
                              HotspotAt(p).id = explicit
               own == \E p \in EditedPlaces : HotspotAt(p).id = explicit
           IN  /\ (target = Empty \/ illFormed \/ taken)
                     => ~c.done /\ c.st = State
               /\ (own /\ target # Empty /\ ~illFormed /\ ~taken)
                     => /\ c.done
                        /\ \A p \in EditedPlaces :
                              c.st.scenes[p[1]].hotSpots[p[2]].id = explicit

\* The dialog of a hotspot that is edited was refused for an id that another
\* hotspot has, and the document holds two hotspots.
C13_Witness ==
    /\ lastOp.op = "confirmAddHotspot" /\ ~lastOp.ok
    /\ lastOp.note = "duplicate"
    /\ pendingHotspot.open /\ pendingHotspot.isEditing
    /\ TotalHotspots(scenes) >= 2

\* hs_<scene id>_<n as three digits>
PatternedId(sceneId, digits) == hsPrefix \o sceneId \o <<"_">> \o digits

\* C14: a hotspot added from the selected scene A to the target B with the id
\* field blank is stored with the id hs_B_NNN: hs_B_001 when it is the first
\* one, hs_B_002 when the only hotspot of the document is the one from A to B
\* added just before it.
C14_BlankIdIsBuiltFromTarget ==
    (/\ pendingHotspot.open /\ ~pendingHotspot.isEditing
     /\ HasKey(scenes, currentScene)) =>
       \A target \in pendingHotspot.options :
           LET form == [text |-> Empty, id |-> Empty, target |-> target,
                        pitch |-> pendingHotspot.pitch,
                        yaw |-> pendingHotspot.yaw]
               c == confirmAddHotspot(State, pendingHotspot, form, FALSE, TRUE)
               before == Get(scenes, currentScene).hotSpots
               after == Get(c.st.scenes, currentScene).hotSpots
               stored == after[Len(after)].id
           IN  /\ c.done /\ Len(after) = Len(before) + 1
               /\ \E d1, d2, d3 \in Digits :
                     stored = PatternedId(target, <<d1, d2, d3>>)
               /\ TotalHotspots(scenes) = 0
                     => stored = PatternedId(target, <<"0", "0", "1">>)
               /\ (/\ TotalHotspots(scenes) = 1 /\ Len(before) = 1
                   /\ before[1].sceneId = target
                   /\ before[1].id = PatternedId(target, <<"0", "0", "1">>))
                     => stored = PatternedId(target, <<"0", "0", "2">>)

\* n written with three digits at least.
ThreeDigits(n) ==
    IF n < 10 THEN <<"0", "0">> \o NumberToString(n)
    ELSE IF n < 100 THEN <<"0">> \o NumberToString(n)
    ELSE NumberToString(n)

\* A hotspot of the document has this id.
IdTaken(id) == \E p \in HotspotPlaces : HotspotAt(p).id = id

\* C15: generateSceneBasedHotspotId(T) is hs_T_NNN for the smallest n >= 1
\* whose id hs_T_NNN no hotspot of the document has; it is computed from the
\* document alone, so the number of a deleted hotspot is given again.
C15_GeneratedIdIsSmallestFree ==
    \A T \in KeySet(scenes) :
        \E n \in 1..(TotalHotspots(scenes) + 1) :
            /\ generateSceneBasedHotspotId(scenes, T)
                  = PatternedId(T, ThreeDigits(n))
            /\ ~IdTaken(PatternedId(T, ThreeDigits(n)))
            /\ \A m \in 1..(n - 1) : IdTaken(PatternedId(T, ThreeDigits(m)))

\* The hotspot hs_B_001 was deleted while hs_B_002 stays: 001 is free again
\* below a number that is taken.
C15_Witness ==
    /\ lastOp.op = "deleteHotspot"
    /\ IdTaken(PatternedId(idB, ThreeDigits(2)))
    /\ ~IdTaken(PatternedId(idB, ThreeDigits(1)))
    /\ generateSceneBasedHotspotId(scenes, idB) = PatternedId(idB, ThreeDigits(1))

(* ---------------------------------------------------------------------- *)
(* Properties of the fallback ids after an import                          *)
(* ---------------------------------------------------------------------- *)
\* The id starts with hs_ and ends with "_" and the numeral of n.
HasSuffix(id, n) ==
    /\ Len(id) > Len(hsPrefix) /\ SubSeq(id, 1, Len(hsPrefix)) = hsPrefix
    /\ \E i \in 1..(Len(id) - 1) :
          /\ id[i] = "_"
          /\ \A j \in (i + 1)..Len(id) : id[j] \in Digits
          /\ NumberValue(SubSeq(id, i + 1, Len(id))) = n

\* The numbers the hs_ ids of the document end with, and 0.
Suffixes ==
    {0} \cup {n \in 0..9 : \E p \in HotspotPlaces : HasSuffix(HotspotAt(p).id, n)}

\* C16: after an import the fallback counter is one past the highest number
\* an hs_ id of the imported document ends with, and the id that a blank id
\* field gets afterwards, whatever was done since, is the id of no hotspot of
\* the document it is added to. (Every document of SpecImport comes from an
\* import.)
C16_FallbackIdsAreFresh ==
    /\ lastOp.op = "importConfiguration" =>
          \E n \in Suffixes : /\ \A m \in Suffixes : m <= n
                              /\ hotspotCounter = n + 1
    /\ (/\ pendingHotspot.open /\ ~pendingHotspot.isEditing
        /\ HasKey(scenes, currentScene)) =>
          \A target \in pendingHotspot.options :
              LET form == [text |-> Empty, id |-> Empty, target |-> target,
                           pitch |-> pendingHotspot.pitch,
                           yaw |-> pendingHotspot.yaw]
                  c == confirmAddHotspot(State, pendingHotspot, form,
                                         FALSE, TRUE)
                  after == Get(c.st.scenes, currentScene).hotSpots
              IN  c.done /\ ~IdTaken(after[Len(after)].id)

(* ---------------------------------------------------------------------- *)
(* Properties of the hotspot a confirmed dialog stores                     *)
(* ---------------------------------------------------------------------- *)
\* The dialog is open for a new hotspot, or for a hotspot of the selected
\* scene.
DialogReady ==
    /\ pendingHotspot.open /\ HasKey(scenes, currentScene)
    /\ pendingHotspot.isEditing =>
          pendingHotspot.editIndex <= Len(Get(scenes, currentScene).hotSpots)

\* The place in the selected scene of the hotspot the dialog stores.
StoredIndex ==
    IF pendingHotspot.isEditing THEN pendingHotspot.editIndex
    ELSE Len(Get(scenes, currentScene).hotSpots) + 1

\* C17: the hotspot a confirmed dialog stores has the text entered as label,
\* or the id of the target scene when the text is blank, and the pitch, yaw
\* and hfov of the target scene's camera as target pitch, yaw and hfov,
\* whatever these are.
C17_StoredLabelAndTargetCamera ==
    DialogReady =>
       \A target \in pendingHotspot.options, text \in LabelInputs :
           LET form == [text |-> text,
                        id |-> generateSceneBasedHotspotId(scenes, target),
                        target |-> target, pitch |-> pendingHotspot.pitch,
                        yaw |-> pendingHotspot.yaw]
               c == confirmAddHotspot(State, pendingHotspot, form, FALSE, TRUE)
               stored == Get(c.st.scenes, currentScene).hotSpots[StoredIndex]
               camera == Get(scenes, target)
           IN  /\ c.done
               /\ stored.text = IF trim(text) = Empty THEN target ELSE trim(text)
               /\ stored.sceneId = target
               /\ stored.targetPitch = camera.pitch
               /\ stored.targetYaw = camera.yaw
               /\ stored.targetHfov = camera.hfov

\* C18: confirming the dialog of a hotspot that is edited replaces the hotspot
\* at its index in the selected scene and nothing else: that scene keeps its
\* number of hotspots and every other hotspot at its place, and the hotspots
\* of the other scenes, the scenes and their order stay as they are.
C18_EditReplacesOneHotspot ==
    (DialogReady /\ pendingHotspot.isEditing) =>
       \A target \in pendingHotspot.options, id \in IdFieldInputs,
          r \in RendererOutcomes :
           LET form == [text |-> Empty, id |-> id, target |-> target,
                        pitch |-> pendingHotspot.pitch,
                        yaw |-> pendingHotspot.yaw]
               c == confirmAddHotspot(State, pendingHotspot, form,
                                      r.throws, r.createOk)
               index == pendingHotspot.editIndex
               before == Get(scenes, currentScene).hotSpots
               after == Get(c.st.scenes, currentScene).hotSpots
           IN  /\ ObjectKeys(c.st.scenes) = ObjectKeys(scenes)
               /\ c.st.sceneOrder = sceneOrder /\ c.st.firstScene = firstScene
               /\ Len(after) = Len(before)
               /\ \A j \in 1..Len(before) : j # index => after[j] = before[j]
               /\ \A k \in KeySet(scenes) \ {currentScene} :
                     Get(c.st.scenes, k) = Get(scenes, k)
               /\ [Get(c.st.scenes, currentScene) EXCEPT !.hotSpots = before]
                     = Get(scenes, currentScene)
               /\ c.done =>
                     /\ after[index].sceneId = target
                     /\ after[index].pitch = before[index].pitch
                     /\ after[index].yaw = before[index].yaw
                     /\ trim(id) # Empty => after[index].id = trim(id)

\* A scene holds hs_T_002 before hs_T_001: hotspots are added at the end and
\* the number 002 is only suggested while 001 is taken, so the first hotspot
\* was edited and took the id 002 while the second one stayed behind it.
C18_Witness ==
    /\ lastOp.op = "confirmAddHotspot" /\ lastOp.ok
    /\ \E i \in 1..Len(scenes), T \in KeySet(scenes) :
          /\ Len(scenes[i].hotSpots) = 2
          /\ scenes[i].hotSpots[1].id = PatternedId(T, ThreeDigits(2))
          /\ scenes[i].hotSpots[2].id = PatternedId(T, ThreeDigits(1))

(* ---------------------------------------------------------------------- *)
(* Properties of deleting and reordering hotspots                          *)
(* ---------------------------------------------------------------------- *)
\* C19: deleteHotspot with an index of the selected scene's hotspot list
\* removes the hotspot at that index, whether the renderer's removal succeeds
\* or throws, and keeps the other hotspots in their order; with an index
\* outside the list it changes nothing; no scene and no hotspot of another
\* scene changes in either case.
C19_DeleteRemovesOneHotspot ==
    SceneSelected =>
       LET before == Get(scenes, currentScene).hotSpots
       IN  \A index \in 0..(Len(before) + 1), r \in RendererOutcomes :
               LET st == deleteHotspot(State, index, r.throws, r.createOk)
                   after == Get(st.scenes, currentScene).hotSpots
               IN  /\ ObjectKeys(st.scenes) = ObjectKeys(scenes)
                   /\ st.sceneOrder = sceneOrder /\ st.firstScene = firstScene
                   /\ \A k \in KeySet(scenes) \ {currentScene} :
                         Get(st.scenes, k) = Get(scenes, k)
                   /\ [Get(st.scenes, currentScene) EXCEPT !.hotSpots = before]
                         = Get(scenes, currentScene)
                   /\ after = IF index \in 1..Len(before)
                              THEN [j \in 1..(Len(before) - 1) |->
                                       IF j < index THEN before[j]
                                       ELSE before[j + 1]]
                              ELSE before

\* A hotspot was deleted from a scene that keeps another one, the renderer
\* threw and could not be rebuilt.
C19_Witness ==
    /\ lastOp.op = "deleteHotspot"
    /\ ~viewer.live
    /\ SceneSelected
    /\ Len(Get(scenes, currentScene).hotSpots) >= 1

\* The number of entries of the sequence that are e.
RECURSIVE Occurrences(_, _)
Occurrences(seq, e) ==
    IF seq = << >> THEN 0
    ELSE (IF Head(seq) = e THEN 1 ELSE 0) + Occurrences(Tail(seq), e)

\* One sequence holds the entries of the other, each as often.
IsPermutation(s, t) ==
    /\ Len(s) = Len(t)
    /\ \A j \in 1..Len(s) : Occurrences(s, s[j]) = Occurrences(t, s[j])

\* C20: a drop of the hotspot drag leaves the hotspot list of the scene it
\* acts on a permutation of what it was (the same hotspots, as many, none
\* twice, none lost, no empty entry) and the hotspots of the other scenes as
\* they were, also when a scenechange notification has changed the selected
\* scene since the drag started.
C20_DropPermutesHotspots ==
    (draggedHotspotIndex # 0 /\ SceneSelected) =>
       LET before == Get(scenes, currentScene).hotSpots
       IN  \A targetIndex \in 1..Len(before), r \in RendererOutcomes :
               LET st == handleHotspotDrop(State, draggedHotspotIndex,
                                           targetIndex, r.throws, r.createOk)
                   after == Get(st.scenes, currentScene).hotSpots
               IN  /\ (listsHotspots(before) => listsHotspots(after))
                   /\ IsPermutation(after, before)
                   /\ \A k \in KeySet(scenes) \ {currentScene} :
                         Get(st.scenes, k) = Get(scenes, k)

(* ---------------------------------------------------------------------- *)
(* Properties of reordering scenes                                         *)
(* ---------------------------------------------------------------------- *)
\* The orders reorderScenes can be given: the ids of the scenes and one more
\* id, in sequences of up to as many ids as there are scenes and one more.
OrderInputs ==
    LET ids == KeySet(scenes) \cup {idSpaced}
    IN  UNION {[1..n -> ids] : n \in 0..(Len(scenes) + 1)}

\* C21: reorderScenes(newOrder) makes newOrder the sceneOrder exactly when
\* newOrder is a permutation of the scene ids; for an order that misses a
\* scene id, repeats one or holds an unknown one, the scenes, their hotspots,
\* sceneOrder and firstScene stay as they are.
C21_ReorderAcceptsOnlyPermutations ==
    \A newOrder \in OrderInputs :
        LET st == reorderScenes(State, newOrder)
        IN  IF IsPermutation(newOrder, ObjectKeys(scenes))
            THEN /\ st.sceneOrder = newOrder
                 /\ KeySet(st.scenes) = KeySet(scenes)
                 /\ \A k \in KeySet(scenes) : Get(st.scenes, k) = Get(scenes, k)
                 /\ st.firstScene = firstScene
            ELSE /\ st.scenes = scenes
                 /\ st.sceneOrder = sceneOrder
                 /\ st.firstScene = firstScene

\* The scenes of st are those of the document, each with the fields and
\* hotspots it has now.
SameScenesIn(st) ==
    /\ KeySet(st.scenes) = KeySet(scenes)
    /\ \A k \in KeySet(scenes) : Get(st.scenes, k) = Get(scenes, k)

\* Apart from the scenes, their order, the value shown by the scene
\* dropdown and the place the arrows start from, st is the state as it is
\* now.
RestUnchangedIn(st) ==
    [st EXCEPT !.scenes = scenes, !.sceneOrder = sceneOrder,
               !.sceneSelect = sceneSelect,
               !.currentSceneIndex = currentSceneIndex] = State

\* C22: moving scene S up or down swaps S with its neighbour in sceneOrder
\* and changes nothing else; moving the first scene up or the last scene down
\* changes nothing; dropping scene S on scene T puts S at the index T had and
\* keeps the order of all other scenes.  Every scene keeps its fields and
\* its hotspots, and firstScene, the selection and the counter stay.
C22_MoveSwapsAndDropRepositions ==
    /\ \A S \in KeySet(scenes), direction \in {"up", "down"} :
         LET st == moveScene(State, S, direction)
             i == indexOf(sceneOrder, S)
             j == IF direction = "up" THEN i - 1 ELSE i + 1
         IN  /\ SameScenesIn(st)
             /\ RestUnchangedIn(st)
             /\ i > 0
             /\ IF j \in 1..Len(sceneOrder)
                THEN /\ Len(st.sceneOrder) = Len(sceneOrder)
                     /\ st.sceneOrder[j] = S
                     /\ st.sceneOrder[i] = sceneOrder[j]
                     /\ \A k \in 1..Len(sceneOrder) \ {i, j} :
                          st.sceneOrder[k] = sceneOrder[k]
                ELSE st.sceneOrder = sceneOrder
    /\ \A S, T \in KeySet(scenes) :
         LET st == handleDrop(State, S, T)
         IN  S # T =>
               /\ SameScenesIn(st)
               /\ RestUnchangedIn(st)
               /\ st.sceneOrder[indexOf(sceneOrder, T)] = S
               /\ Without(st.sceneOrder, S) = Without(sceneOrder, S)

\* Three scenes are in the document and one of them was just dropped on
\* another, which left the scenes map in an order other than its earlier one.
C22_Witness ==
    /\ lastOp.op = "handleDrop"
    /\ lastOp.ok
    /\ Len(sceneOrder) >= 3
    /\ ObjectKeys(scenes) # sceneOrder

(* ---------------------------------------------------------------------- *)
(* Properties of capturing the view                                        *)
(* ---------------------------------------------------------------------- *)
\* The hotspot with the target camera replaced by cam.
Retargeted(hotspot, cam) ==
    [hotspot EXCEPT !.targetPitch = cam.pitch, !.targetYaw = cam.yaw,
                    !.targetHfov = cam.hfov]

\* C23: capturing the view (p, y, h) for the selected scene S gives S the
\* camera (p, y, h), gives exactly the hotspots that target S, in any scene,
\* the target camera (p, y, h) and leaves their other fields, every other
\* hotspot and every other scene as they were; the count it returns is the
\* number of hotspots that target S.
C23_CaptureRetargetsExactlyTheReferences ==
    (currentScene # Empty /\ viewer.live /\ HasKey(scenes, currentScene)) =>
        \A cam \in CameraInputs, createOk \in BOOLEAN :
            LET st == captureCurrentView(State, cam, createOk)
                S == currentScene
            IN  /\ ObjectKeys(st.scenes) = ObjectKeys(scenes)
                /\ \A i \in 1..Len(scenes) :
                     /\ [st.scenes[i] EXCEPT !.hotSpots = << >>]
                          = IF scenes[i].id = S
                            THEN [id |-> S, pitch |-> cam.pitch,
                                  yaw |-> cam.yaw, hfov |-> cam.hfov,
                                  hotSpots |-> << >>]
                            ELSE [scenes[i] EXCEPT !.hotSpots = << >>]
                     /\ Len(st.scenes[i].hotSpots) = Len(scenes[i].hotSpots)
                /\ \A p \in HotspotPlaces :
                     st.scenes[p[1]].hotSpots[p[2]]
                       = IF HotspotAt(p).sceneId = S
                         THEN Retargeted(HotspotAt(p), cam)
                         ELSE HotspotAt(p)
                /\ updateCount(setSceneCamera(scenes, S, cam), S)
                     = Cardinality({p \in HotspotPlaces : HotspotAt(p).sceneId = S})
                /\ st.sceneOrder = sceneOrder
                /\ st.firstScene = firstScene

\* A view other than the stored one was just captured for a scene that one
\* hotspot targets, while another hotspot targets another scene.
C23_Witness ==
    /\ lastOp.op = "captureCurrentView"
    /\ currentScene # Empty
    /\ HasKey(scenes, currentScene)
    /\ Get(scenes, currentScene).hfov = 90
    /\ \E p, q \in HotspotPlaces :
         /\ HotspotAt(p).sceneId = currentScene
         /\ HotspotAt(p).targetHfov = 90
         /\ HotspotAt(q).sceneId # currentScene
         /\ HotspotAt(q).targetHfov = 100

(* ---------------------------------------------------------------------- *)
(* Properties of the import                                                *)
(* ---------------------------------------------------------------------- *)
\* The ids of the scenes of a file, in the order of its text.
TextOrder(text) == [i \in 1..Len(text.scenes) |-> text.scenes[i].id]

\* The files that parse, hold no sceneOrder and whose hotspots are objects.
FilesWithoutOrder ==
    {text \in FileTexts :
        /\ text.wellFormed
        /\ text.sceneOrder = << >>
        /\ ~ensureHotspotIdsThrows(JSONparse(text).scenes)}

\* The places of the hotspots of a scenes map.
PlacesIn(obj) ==
    UNION {{<<i, j>> : j \in 1..Len(obj[i].hotSpots)} : i \in 1..Len(obj)}

\* C24: importing a file without sceneOrder in which some hotspots have no
\* id gives a document whose sceneOrder is the order of the scenes in the
\* text of the file and in which every hotspot has an id that is not empty
\* and differs from the id of every other hotspot; a hotspot that had an id
\* in the file keeps it.
C24_ImportDefaultsOrderAndIds ==
    \A text \in FilesWithoutOrder, createOk \in BOOLEAN :
        LET st == onload(State, text, createOk)
        IN  /\ st.sceneOrder = TextOrder(text)
            /\ \A p \in PlacesIn(st.scenes) :
                 st.scenes[p[1]].hotSpots[p[2]].id # Empty
            /\ \A p, q \in PlacesIn(st.scenes) :
                 p # q => st.scenes[p[1]].hotSpots[p[2]].id
                            # st.scenes[q[1]].hotSpots[q[2]].id
            /\ \A i \in 1..Len(text.scenes) :
                 \A j \in 1..Len(text.scenes[i].hotSpots) :
                    LET given == text.scenes[i].hotSpots[j].id
                    IN  given # Empty =>
                          Get(st.scenes, text.scenes[i].id).hotSpots[j].id = given

\* The four invariants of the document: hotspot ids are unique in the whole
\* document, every hotspot targets an existing scene other than its owner,
\* sceneOrder holds every scene id once and nothing else, and firstScene is
\* empty or a scene id.
FourInvariants ==
    /\ \A i \in 1..Len(scenes) : listsHotspots(scenes[i].hotSpots)
    /\ \A p, q \in HotspotPlaces : p # q => HotspotAt(p).id # HotspotAt(q).id
    /\ \A p \in HotspotPlaces :
         /\ HasKey(scenes, HotspotAt(p).sceneId)
         /\ HotspotAt(p).sceneId # scenes[p[1]].id
    /\ IsPermutation(sceneOrder, ObjectKeys(scenes))
    /\ firstScene = Empty \/ HasKey(scenes, firstScene)

\* C25: for a document that satisfies the four invariants, importing the
\* text of its export gives the same document (the same scenes in the same
\* order with the same hotspots, the same sceneOrder and firstScene), and the
\* export of that document is the same text.
C25_ExportImportRoundTrip ==
    FourInvariants =>
        \A createOk \in BOOLEAN :
            LET text == exportConfiguration(State)
                st == onload(State, text, createOk)
            IN  /\ st.scenes = scenes
                /\ st.sceneOrder = sceneOrder
                /\ st.firstScene = firstScene
                /\ exportConfiguration(st) = text

\* The import of the file ends in an error: its text does not parse, or an
\* error is raised while its hotspots are given ids.
ImportFails(text) ==
    ~text.wellFormed \/ ensureHotspotIdsThrows(JSONparse(text).scenes)

\* C26: an import that ends in an error, raised by the parse or raised while
\* the parsed document is normalized, leaves the scenes, sceneOrder and
\* firstScene as they were before it.
C26_FailedImportChangesNothing ==
    \A text \in FileTexts, createOk \in BOOLEAN :
        ImportFails(text) =>
            LET st == onload(State, text, createOk)
            IN  /\ st.scenes = scenes
                /\ st.sceneOrder = sceneOrder
                /\ st.firstScene = firstScene

(* ---------------------------------------------------------------------- *)
(* Properties of deleting scenes of imported documents                     *)
(* ---------------------------------------------------------------------- *)
\* Some hotspot of the scenes targets the scene.
Targeted(obj, sceneId) ==
    \E i \in 1..Len(obj) : \E j \in 1..Len(hotSpotsOf(obj[i])) :
        hotSpotsOf(obj[i])[j].sceneId = sceneId

\* C27: deleting the selected scene X either removes X from the scenes and
\* from sceneOrder, removes every hotspot that targets X and repairs
\* firstScene, or changes nothing in the document; X is never removed from
\* the scenes while a hotspot that targets it remains.
C27_DeleteSceneIsAtomic ==
    (Idle /\ SceneSelected) =>
        \A confirmed, throws \in BOOLEAN :
            LET X == currentScene
                st == deleteCurrentScene(State, confirmed, throws)
            IN  \/ /\ st.scenes = scenes
                   /\ st.sceneOrder = sceneOrder
                   /\ st.firstScene = firstScene
                \/ /\ ~HasKey(st.scenes, X)
                   /\ indexOf(st.sceneOrder, X) = 0
                   /\ ~Targeted(st.scenes, X)
                   /\ st.firstScene # X

(* ---------------------------------------------------------------------- *)
(* Properties of the mirrored deletion                                     *)
(* ---------------------------------------------------------------------- *)
\* C28: while the deletion of the selected scene X is mirrored on a live
\* renderer, removeScene(X) is called only when the active scene of the
\* renderer is not X, whatever the number of scenes.
C28_RemoveSceneOnlyWhenInactive ==
    (Idle /\ SceneSelected /\ viewer.live) =>
        LET calls == deleteSceneCalls(State)
        IN  \A k \in 1..Len(calls) :
              calls[k].call = "removeScene" =>
                play(rendererOf(State), SubSeq(calls, 1, k - 1), FALSE).scene
                    # calls[k].scene

\* removeScene(X) is called while X is the active scene of the renderer,
\* which the renderer answers by reporting failure.
RemovalRefused ==
    LET calls == deleteSceneCalls(State)
    IN  play(rendererOf(State), SubSeq(calls, 1, Len(calls) - 1), FALSE).scene
            = currentScene

\* C29: when a renderer call of the mirrored deletion of scene X throws or
\* reports failure, the renderer holds, once the deletion has completed,
\* neither scene X nor a hotspot that targets X.
C29_FailedMirroringRebuildsRenderer ==
    (Idle /\ SceneSelected /\ viewer.live) =>
        \A throws \in BOOLEAN :
            (throws \/ RemovalRefused) =>
                LET r == mirroredDeletion(State, throws, FALSE)
                IN  /\ ~HasKey(r.scenes, currentScene)
                    /\ ~Targeted(r.scenes, currentScene)

(* ---------------------------------------------------------------------- *)
(* Properties of the mirrored rename                                       *)
(* ---------------------------------------------------------------------- *)
\* C30: with a live renderer that holds the document and whose calls all
\* succeed, the renderer holds after renameScene(X, Y) the scenes of the
\* document, each with the hotspots the document gives it, and none of its
\* hotspots targets X.
C30_RendererFollowsRename ==
    \A Y \in RenameTargets :
        (editSceneModal /\ SceneSelected /\ viewer.live /\ Y # currentScene) =>
            LET X == currentScene
                renamed == renameScene(State, X, Y, TRUE, FALSE, TRUE)
                after == renamed.st
                r == play(rendererOf(State),
                          renameSceneCalls(State, after, X, Y), TRUE)
            IN  renamed.ok =>
                    /\ KeySet(r.scenes) = KeySet(after.scenes)
                    /\ \A id \in KeySet(after.scenes) :
                          Get(r.scenes, id).hotSpots = Get(after.scenes, id).hotSpots
                    /\ ~Targeted(r.scenes, X)

(* ---------------------------------------------------------------------- *)
(* Properties of the rebuild of the renderer                               *)
(* ---------------------------------------------------------------------- *)
\* C31: rebuilding the renderer twice in a row leaves the renderer (its
\* scenes, their hotspots and its active scene) and the selection of the
\* editor as rebuilding it once does, and a rebuild leaves the scenes,
\* sceneOrder and firstScene as they are.
C31_RebuildIsIdempotent ==
    \A createOk \in BOOLEAN :
        LET once == initializeViewer(State, createOk)
            twice == initializeViewer(once, createOk)
        IN  /\ twice.viewer = once.viewer
            /\ rendererOf(twice) = rendererOf(once)
            /\ twice.currentScene = once.currentScene
            /\ twice.sceneSelect = once.sceneSelect
            /\ once.scenes = scenes
            /\ once.sceneOrder = sceneOrder
            /\ once.firstScene = firstScene


(* ---------------------------------------------------------------------- *)
(* The arrow buttons                                                       *)
(* ---------------------------------------------------------------------- *)
\* The next-scene arrow.
NextScene ==
    /\ Idle
    /\ Install(nextScene(State))
    /\ lastOp' = Op("nextScene", Len(sceneOrder) > 0 /\ viewer.live, "")
    /\ UIUnchanged

\* The previous-scene arrow.
PrevScene ==
    /\ Idle
    /\ Install(prevScene(State))
    /\ lastOp' = Op("prevScene", Len(sceneOrder) > 0 /\ viewer.live, "")
    /\ UIUnchanged

\* The files whose hotspot lists hold hotspots only.
DenseFileTexts ==
    {text \in FileTexts :
        text.wellFormed => ~ensureHotspotIdsThrows(JSONparse(text).scenes)}

InitNavigate == InitWatching({"nextScene", "prevScene"})

NextNavigate ==
    \/ AddNewScene(TwoSceneForms, Calm)
    \/ DeleteCurrentScene(BOOLEAN)
    \/ ImportFile(DenseFileTexts)
    \/ MoveScene
    \/ DropScene
    \/ SelectScene
    \/ SceneChange
    \/ ShowEditSceneModal
    \/ EditCurrentScene(RenameForms, Calm)
    \/ NextScene
    \/ PrevScene

SpecNavigate == InitNavigate /\ [][NextNavigate]_vars

\* The scene after and the scene before a scene of an order, with wrapping.
Following(order, sceneId) == order[(indexOf(order, sceneId) % Len(order)) + 1]

Preceding(order, sceneId) ==
    order[((indexOf(order, sceneId) - 2 + Len(order)) % Len(order)) + 1]

\* C32: whenever a renderer is live and its active scene is in sceneOrder,
\* the next-scene arrow makes the renderer load the scene that follows the
\* active scene in sceneOrder (the first one after the last), the
\* previous-scene arrow the scene that precedes it (the last one before the
\* first), and the scene loaded is a scene of the document.
C32_ArrowsFollowSceneOrder ==
    (viewer.live /\ indexOf(sceneOrder, viewer.scene) # 0)
        => /\ nextScene(State).viewer.scene = Following(sceneOrder, viewer.scene)
           /\ prevScene(State).viewer.scene = Preceding(sceneOrder, viewer.scene)
           /\ HasKey(scenes, nextScene(State).viewer.scene)
           /\ HasKey(scenes, prevScene(State).viewer.scene)


(* ---------------------------------------------------------------------- *)
(* Properties of the hotspot dialog while the renderer changes scene       *)
(* ---------------------------------------------------------------------- *)
\* The scenes the open dialog does not offer as a target: showAddHotspotModal
\* and showEditHotspotModal leave out the scene that is selected when the
\* dialog is opened.
OpenedIn == KeySet(scenes) \ pendingHotspot.options

\* C33: confirming the hotspot dialog changes only the scene that was
\* selected when the dialog was opened, also when a scenechange notification
\* has selected another scene since: a new hotspot is appended to that scene,
\* an edited one replaces the hotspot of that scene at the index of the
\* dialog, and every other scene stays as it is.
C33_ConfirmChangesTheSceneOfTheDialog ==
    (pendingHotspot.open /\ Cardinality(OpenedIn) = 1) =>
       \A opened \in OpenedIn, target \in pendingHotspot.options,
          id \in {Empty, typedHotspotId} :
           LET form == [text |-> Empty, id |-> id, target |-> target,
                        pitch |-> pendingHotspot.pitch,
                        yaw |-> pendingHotspot.yaw]
               c == confirmAddHotspot(State, pendingHotspot, form, FALSE, TRUE)
               before == Get(scenes, opened).hotSpots
               after == Get(c.st.scenes, opened).hotSpots
           IN  /\ \A k \in KeySet(scenes) \ {opened} :
                     Get(c.st.scenes, k) = Get(scenes, k)
               /\ (c.done /\ ~pendingHotspot.isEditing) =>
                     /\ Len(after) = Len(before) + 1
                     /\ SubSeq(after, 1, Len(before)) = before
                     /\ after[Len(after)].sceneId = target
               /\ (c.done /\ pendingHotspot.isEditing) =>
                     /\ Len(after) = Len(before)
                     /\ after[pendingHotspot.editIndex].sceneId = target
                     /\ \A j \in 1..Len(before) :
                           j # pendingHotspot.editIndex => after[j] = before[j]


(* ---------------------------------------------------------------------- *)
(* Properties of what an import keeps                                      *)
(* ---------------------------------------------------------------------- *)
\* A hotspot without regard to its id.
Anonymous(hotspot) == [hotspot EXCEPT !.id = Empty]

\* C34: an import that succeeds keeps every scene and every hotspot of the
\* file: the scene ids of the document are the scene ids of the file, and
\* every scene has the hotspots it has in the file, in their order, each with
\* its position, label and target scene id (whether the target exists or
\* not); ids may have been given to hotspots and the order of the scenes may
\* have changed.
C34_ImportKeepsScenesAndHotspots ==
    \A text \in DenseFileTexts, createOk \in BOOLEAN :
        text.wellFormed =>
            LET imported == JSONparse(text).scenes
                st == onload(State, text, createOk)
            IN  /\ KeySet(st.scenes) = KeySet(imported)
                /\ \A k \in KeySet(imported) \cap KeySet(st.scenes) :
                     LET given == Get(imported, k).hotSpots
                         kept == Get(st.scenes, k).hotSpots
                     IN  /\ Len(kept) = Len(given)
                         /\ \A j \in 1..Len(given) :
                               Anonymous(kept[j]) = Anonymous(given[j])


(* ---------------------------------------------------------------------- *)
(* Properties of the order of the scenes map                               *)
(* ---------------------------------------------------------------------- *)
\* C35: after every operation (add, rename, delete, move, drop, import) the
\* keys of the scenes map are enumerated in the order of sceneOrder, whatever
\* the scene ids are, ids made of digits included.
C35_KeysEnumerateInSceneOrder == ObjectKeys(scenes) = sceneOrder


(* ---------------------------------------------------------------------- *)
(* Properties of the target camera of the hotspots                         *)
(* ---------------------------------------------------------------------- *)
\* C36: starting from the empty document, after every sequence of scenes
\* added and edited, views captured, scenes renamed and hotspots added and
\* edited, every hotspot's targetPitch, targetYaw and targetHfov are the
\* pitch, yaw and hfov the scene it targets has now.
C36_TargetCameraIsTheCameraOfTheTarget ==
    \A p \in HotspotPlaces :
        HasKey(scenes, HotspotAt(p).sceneId) =>
            LET target == Get(scenes, HotspotAt(p).sceneId)
            IN  /\ HotspotAt(p).targetPitch = target.pitch
                /\ HotspotAt(p).targetYaw = target.yaw
                /\ HotspotAt(p).targetHfov = target.hfov


(* ---------------------------------------------------------------------- *)
(* Properties of the renderer and the selection                            *)
(* ---------------------------------------------------------------------- *)
\* C37: whenever a renderer is live after an operation, its active scene is
\* the scene selected in the editor; in particular after a scene is deleted
\* and scenes remain, after a view is captured, after an import and after a
\* rebuild that follows a renderer call that threw.
C37_RendererShowsTheSelectedScene ==
    viewer.live => viewer.scene = currentScene


\* C38: after every operation the selected scene is none or the id of a
\* scene of the document; it is never the id of a scene that was deleted or
\* renamed away.
C38_SelectionIsNoneOrAScene ==
    currentScene = Empty \/ HasKey(scenes, currentScene)

(* ---------------------------------------------------------------------- *)
(* Documents without scenes                                                *)
(* ---------------------------------------------------------------------- *)
\* The file {"default": {"firstScene": "", "sceneOrder": []}, "scenes": {}}.
sceneLessFile == fileText(<< >>, << >>, Empty)

\* The file {"scenes": {}}: well formed, without default.
headlessFile == [wellFormed |-> TRUE, scenes |-> << >>]

InitSceneless == InitWatching({"importConfiguration", "deleteCurrentScene"})

NextSceneless ==
    \/ AddNewScene(TwoSceneForms, RendererOutcomes)
    \/ SelectScene
    \/ SceneChange
    \/ DeleteCurrentScene(BOOLEAN)
    \/ ImportFile(DenseFileTexts \cup {sceneLessFile})
    \/ PreviewClick

SpecSceneless == InitSceneless /\ [][NextSceneless]_vars

\* C39: a renderer is live only while the document has a scene: after the
\* last scene is deleted or a file without scenes is imported the renderer
\* is destroyed, and no operation leaves a live renderer next to a document
\* without scenes.
C39_RendererLiveOnlyWithScenes ==
    /\ viewer.live => Len(scenes) > 0
    /\ \A text \in {sceneLessFile, headlessFile}, createOk \in BOOLEAN :
          LET st == onload(State, text, createOk)
          IN  st.viewer.live => Len(st.scenes) > 0

====
